---- MODULE Spec2Model ----
(***************************************************************************)
(* Clinic hierarchy, warehouse MAIN-per-branch enforcement, the inventory  *)
(* stock ledger, the appointment status handlers and the appointment       *)
(* reminder job of the clinic-management backend.                          *)
(*                                                                         *)
(* Documents are records, collections are sequences indexed by document    *)
(* id (ids are handed out in insertion order and never reused), and every  *)
(* request handler is one action.  The handlers that the concurrency       *)
(* claims are about are also modelled step by step, one step per awaited   *)
(* database call (the *Race specifications and SpecReminder further down). *)
(***************************************************************************)
EXTENDS Integers, Sequences, FiniteSets, TLC

\* ------------------------------------------------------------------ bounds
MaxClinics == 3
MaxBranches == MaxClinics - 1
MaxWarehouses == 2
MaxStock == 3
MaxQty == 2

\* The null ObjectId (parent_clinic_id of a Main Clinic, an absent id in a request).
NullId == 0

\* Requesters.  Users 1 and 2 authenticate in tenant 1, user 3 in tenant 2.
Users == {1, 2, 3}
Tenants == {1, 2}
TenantOf(u) == IF u = 3 THEN 2 ELSE 1
UserRoles == {"super_admin", "admin", "staff"}

VARIABLES
    clinics,      \* Clinic collection: Seq of [tenant_id, is_main_clinic, parent_clinic_id, is_active]
    userClinics,  \* UserClinic collection: set of [user_id, clinic_id, is_active]
    warehouses,   \* Warehouse collection: Seq of [tenant_id, type, status, assignedBranches, isShared, deleted_at]
    item,         \* the Inventory document under study, or NoItem
    statuses,     \* AppointmentStatus collection: Seq of [clinic_id, code, is_default, is_active]
    reminderSent, \* AppointmentReminderSent collection: set of [appointment_id, window_key]
    delivered,    \* reminder messages the WhatsApp gateway has sent, counted per marker key
    pc,           \* step-wise handlers: the position of each in-flight request
    loc           \* step-wise handlers: the local variables of each in-flight request

vars == <<clinics, userClinics, warehouses, item, statuses, reminderSent, delivered, pc, loc>>

\* Inventory document: [exists, tenant_id, clinic_id, assignedBranches, current_stock,
\* branchWarehouses, stockByBranchWarehouse, version]; version is Mongoose's __v.
NoItem == [exists |-> FALSE]

\* ------------------------------------------------------------ small helpers
Range(s) == {s[i] : i \in DOMAIN s}

Max(a, b) == IF a >= b THEN a ELSE b

Min(S) == CHOOSE x \in S : \A y \in S : x <= y

\* [...new Set(arr)]: the first occurrence of every element, in order.
RECURSIVE UniqueSeq(_)
UniqueSeq(s) ==
    IF s = <<>> THEN <<>>
    ELSE LET init == UniqueSeq(SubSeq(s, 1, Len(s) - 1))
             last == s[Len(s)]
         IN IF last \in Range(init) THEN init ELSE Append(init, last)

\* ------------------------------------------------- reminder job: the data
\* settings.notifications.triggers.appointment_reminder.reminderWindows of the one
\* Settings document whose reminder trigger is enabled (that of clinic 1).
ReminderWindows == <<[days |-> 1, hours |-> 0], [days |-> 0, hours |-> 2]>>

\* windowKey(days, hours): the string `${days}d_${hours}h`, one for each (days, hours).
windowKey(days, hours) == <<days, hours>>

\* The appointments with status scheduled or confirmed in clinic 1 and its Sub
\* Clinic 2.  phone: the patient has one; due: the index of the reminder window whose
\* range [now + window - 8 min, now + window + 8 min] holds appointment_date.
ReminderAppointments ==
    <<[clinic_id |-> 1, phone |-> TRUE, due |-> 1],
      [clinic_id |-> 2, phone |-> TRUE, due |-> 1],
      [clinic_id |-> 1, phone |-> FALSE, due |-> 2]>>

\* Settings.findOne({clinicId}) as sendNotification reads it, per clinic: clinic 1 has
\* the reminder trigger enabled with a WhatsApp template and a gateway configured,
\* clinic 2 has no Settings document.
ReminderSettings ==
    <<[exists |-> TRUE, template |-> TRUE, hasWawp |-> TRUE],
      [exists |-> FALSE, template |-> FALSE, hasWawp |-> FALSE]>>

\* The keys of the unique index {appointment_id, window_key}.
MarkerKeys ==
    [appointment_id : 1..Len(ReminderAppointments),
     window_key : {windowKey(ReminderWindows[w].days, ReminderWindows[w].hours) :
                      w \in 1..Len(ReminderWindows)}]

NoDeliveries == [k \in MarkerKeys |-> 0]

\* ------------------------------------------------------------------ Clinic
ClinicIds == 1..Len(clinics)

\* Clinic.findOne({tenant_id, is_main_clinic: true}): the first match, or NullId.
FindMainClinic(cs, t) ==
    LET hits == {i \in 1..Len(cs) : cs[i].tenant_id = t /\ cs[i].is_main_clinic}
    IN IF hits = {} THEN NullId ELSE Min(hits)

\* Clinic.countDocuments({tenant_id}).
TenantClinicsCount(cs, t) == Cardinality({i \in 1..Len(cs) : cs[i].tenant_id = t})

\* Clinic.findOne({tenant_id, is_main_clinic: true, is_active: true, _id: {$ne: exclude}}) != null.
ActiveMainExists(cs, t, exclude) ==
    \E i \in 1..Len(cs) :
        /\ cs[i].tenant_id = t
        /\ cs[i].is_main_clinic
        /\ cs[i].is_active
        /\ i # exclude

validateMainClinicUniqueness(cs, t, exclude) ==
    IF ActiveMainExists(cs, t, exclude)
    THEN [valid |-> FALSE, error |-> "Only one Main Clinic is allowed per Tenant"]
    ELSE [valid |-> TRUE, error |-> ""]

validateClinicHierarchy(isMain, parentId) ==
    IF isMain /\ parentId # NullId
    THEN [valid |-> FALSE, error |-> "Main Clinic must have parent_clinic_id = null"]
    ELSE IF ~isMain /\ parentId = NullId
    THEN [valid |-> FALSE, error |-> "Sub Clinic must reference Main Clinic via parent_clinic_id"]
    ELSE [valid |-> TRUE, error |-> ""]

validateParentClinic(cs, parentId, t) ==
    IF /\ parentId \in 1..Len(cs)
       /\ cs[parentId].tenant_id = t
       /\ cs[parentId].is_main_clinic
       /\ cs[parentId].is_active
    THEN [valid |-> TRUE, error |-> ""]
    ELSE [valid |-> FALSE, error |-> "Parent clinic must be a valid Main Clinic in the same tenant"]

\* A deletion rule that counts the tenant's clinics whether active or not.
validateMainClinicDeletionCountingAll(cs, id, t) ==
    IF id \notin 1..Len(cs)
    THEN [valid |-> FALSE, error |-> "Clinic not found"]
    ELSE IF ~cs[id].is_main_clinic
    THEN [valid |-> TRUE, error |-> ""]
    ELSE IF Cardinality({i \in 1..Len(cs) : cs[i].tenant_id = t}) = 1
    THEN [valid |-> FALSE, error |-> "Cannot delete Main Clinic. It is the only clinic in the organization."]
    ELSE [valid |-> TRUE, error |-> ""]

validateMainClinicDeletion(cs, id, t) ==
    IF id \notin 1..Len(cs)
    THEN [valid |-> FALSE, error |-> "Clinic not found"]
    ELSE IF ~cs[id].is_main_clinic
    THEN [valid |-> TRUE, error |-> ""]
    ELSE IF Cardinality({i \in 1..Len(cs) : cs[i].tenant_id = t /\ cs[i].is_active}) = 1
    THEN [valid |-> FALSE, error |-> "Cannot delete Main Clinic. It is the only clinic in the organization."]
    ELSE [valid |-> TRUE, error |-> ""]

validateMainClinicStatus(isMain, isActive) ==
    IF isMain /\ ~isActive
    THEN [valid |-> FALSE, error |-> "Cannot disable Main Clinic."]
    ELSE [valid |-> TRUE, error |-> ""]

validateClinicBusinessRules(cs, t, isMain, parentId) ==
    LET h == validateClinicHierarchy(isMain, parentId)
        u == validateMainClinicUniqueness(cs, t, NullId)
        p == validateParentClinic(cs, parentId, t)
    IN IF ~h.valid THEN h
       ELSE IF isMain /\ ~u.valid THEN u
       ELSE IF ~isMain /\ parentId # NullId /\ ~p.valid THEN p
       ELSE [valid |-> TRUE, error |-> ""]

\* ClinicSchema.pre('save'): a new main clinic is refused when an active main exists.
ClinicPreSaveOk(cs, doc) ==
    ~(doc.is_main_clinic /\ ActiveMainExists(cs, doc.tenant_id, NullId))

\* UserClinic.findOne({user_id, clinic_id, is_active: true}) != null.
HasActiveMembership(ucs, u, c) ==
    \E m \in ucs : m.user_id = u /\ m.clinic_id = c /\ m.is_active

\* userClinics.some(uc => uc.clinic_id && !uc.clinic_id.is_main_clinic) over the
\* requester's active memberships, the clinic populated from the collection.
BelongsToSubClinic(cs, ucs, u) ==
    \E m \in ucs :
        /\ m.user_id = u
        /\ m.is_active
        /\ m.clinic_id \in 1..Len(cs)
        /\ ~cs[m.clinic_id].is_main_clinic

\* A decision that lets a member of a Sub Clinic create clinics: the rejection in
\* createClinic is what DecideClinicType adds to it.
DecideClinicTypeUnrestricted(cs, ucs, u, t) ==
    IF FindMainClinic(cs, t) = NullId
    THEN [ok |-> TRUE, isMainClinic |-> TRUE, parentClinicId |-> NullId]
    ELSE [ok |-> TRUE, isMainClinic |-> FALSE, parentClinicId |-> FindMainClinic(cs, t)]

\* createClinic's Main/Sub decision over what it has read: the main clinic found,
\* the clinic count, and the requester's memberships as they are when it comes to them.
DecideFromReads(existingMainClinic, tenantClinicsCount, cs, ucs, u) ==
    IF tenantClinicsCount = 0
    THEN [ok |-> TRUE, isMainClinic |-> TRUE, parentClinicId |-> NullId]
    ELSE IF existingMainClinic = NullId
    THEN [ok |-> TRUE, isMainClinic |-> TRUE, parentClinicId |-> NullId]
    ELSE IF ~HasActiveMembership(ucs, u, existingMainClinic)
    THEN IF BelongsToSubClinic(cs, ucs, u)
         THEN [ok |-> FALSE, isMainClinic |-> FALSE, parentClinicId |-> NullId]
         ELSE [ok |-> TRUE, isMainClinic |-> FALSE, parentClinicId |-> existingMainClinic]
    ELSE [ok |-> TRUE, isMainClinic |-> FALSE, parentClinicId |-> existingMainClinic]

\* createClinic's Main/Sub decision: what the new clinic is to be, or the refusal.
DecideClinicType(cs, ucs, u, t) ==
    DecideFromReads(FindMainClinic(cs, t), TenantClinicsCount(cs, t), cs, ucs, u)

\* --------------------------------------------------------------- Warehouse
\* Warehouse.findOne({tenant_id, type: 'MAIN', assignedBranches: b, deleted_at: null,
\* _id: {$ne: exclude}}) != null.
MainWarehouseExists(ws, t, b, exclude) ==
    \E i \in 1..Len(ws) :
        /\ ws[i].tenant_id = t
        /\ ws[i].type = "MAIN"
        /\ b \in Range(ws[i].assignedBranches)
        /\ ~ws[i].deleted_at
        /\ i # exclude

\* A pre-save hook that validates nothing.
WarehousePreSaveSkipped(ws, doc, self) == TRUE

\* WarehouseSchema.pre('save'): TRUE when the save may go on.
WarehousePreSaveOk(ws, doc, self) ==
    IF doc.type = "MAIN" /\ ~doc.deleted_at
    THEN \A b \in Range(doc.assignedBranches) : ~MainWarehouseExists(ws, doc.tenant_id, b, self)
    ELSE TRUE

\* A provisioning whose write outlives the failure of its transaction.
createDefaultWarehousesForBranchUnaborted(ws, t, b, dbFails) ==
    IF MainWarehouseExists(ws, t, b, NullId) THEN ws
    ELSE Append(ws, [tenant_id |-> t, type |-> "MAIN", status |-> "ACTIVE",
                     assignedBranches |-> <<b>>, isShared |-> FALSE, deleted_at |-> FALSE])

\* createDefaultWarehousesForBranch: the Warehouse collection after the call.  dbFails is
\* the persistence layer failing inside the transaction, which aborts it.
createDefaultWarehousesForBranch(ws, t, b, dbFails) ==
    LET mainWarehouse == [tenant_id |-> t, type |-> "MAIN", status |-> "ACTIVE",
                          assignedBranches |-> <<b>>, isShared |-> FALSE, deleted_at |-> FALSE]
    IN IF dbFails THEN ws
       ELSE IF MainWarehouseExists(ws, t, b, NullId) THEN ws
       ELSE IF ~WarehousePreSaveOk(ws, mainWarehouse, NullId) THEN ws
       ELSE Append(ws, mainWarehouse)

\* ------------------------------------------------------------------- Init
Init ==
    /\ clinics = <<>>
    /\ userClinics = {}
    /\ warehouses = <<>>
    /\ item = NoItem
    /\ statuses = <<>>
    /\ reminderSent = {}
    /\ delivered = NoDeliveries
    /\ pc = <<>>
    /\ loc = <<>>

\* ------------------------------------------------------- ClinicController
\* What a handler does to the collections it writes, with its HTTP status and message.
Reply(status, error, cs, ucs, ws) ==
    [status |-> status, error |-> error, detail |-> NullId,
     clinics |-> cs, userClinics |-> ucs, warehouses |-> ws, events |-> <<>>]

\* emitWarehouseEvent(type, warehouse, tenantId), called by a handler that has
\* written: the event types the handler has handed to the listeners, in order.
emitWarehouseEvent(type, r) == [r EXCEPT !.events = Append(@, type)]

\* A refusal: nothing is written.
Refuse(status, error) == Reply(status, error, clinics, userClinics, warehouses)

\* A refusal whose message names a branch or a quantity.
RefuseNaming(status, error, detail) == [Refuse(status, error) EXCEPT !.detail = detail]

\* An optional request body field: Absent when not sent, Some(v) when sent with value v.
Absent == {}
Some(v) == {v}
Get(o) == CHOOSE x \in o : TRUE

\* The bodies POST /api/clinics is tried with, over the fields of the hierarchy model.
ClinicCreateBodies ==
    [is_active : {Absent, Some(TRUE), Some(FALSE)},
     is_main_clinic : {Absent, Some(TRUE), Some(FALSE)},
     parent_clinic_id : {Absent, Some(NullId), Some(1)}]

\* The body the clinic front end sends: none of the three fields.
DefaultClinicBody ==
    [is_active |-> Absent, is_main_clinic |-> Absent, parent_clinic_id |-> Absent]

\* createClinic: const { is_main_clinic, parent_clinic_id, ...clinicBodyData } = req.body.
clinicBodyData(body) ==
    [body EXCEPT !.is_main_clinic = Absent, !.parent_clinic_id = Absent]

\* createClinic's clinicData as new Clinic(...) stores it: the rest of the body, the
\* requester's tenant and the hierarchy fields decided; is_active defaults to true.
clinicData(t, rest, isMainClinic, parentClinicId) ==
    [tenant_id |-> t, is_main_clinic |-> isMainClinic, parent_clinic_id |-> parentClinicId,
     is_active |-> IF rest.is_active = Absent THEN TRUE ELSE Get(rest.is_active)]

\* POST /api/clinics by user u.  whFails: warehouse provisioning fails (logged, swallowed).
createClinic(u, body, whFails) ==
    LET t == TenantOf(u)
        d == DecideClinicType(clinics, userClinics, u, t)
        validation == validateClinicBusinessRules(clinics, t, d.isMainClinic, d.parentClinicId)
        clinic == clinicData(t, clinicBodyData(body), d.isMainClinic, d.parentClinicId)
        id == Len(clinics) + 1
    IN IF ~d.ok
       THEN Reply(403, "Sub Clinics are not allowed to create other clinics",
                  clinics, userClinics, warehouses)
       ELSE IF ~validation.valid
       THEN Reply(400, validation.error, clinics, userClinics, warehouses)
       ELSE IF ~ClinicPreSaveOk(clinics, clinic)
       THEN Reply(500, "Error creating clinic", clinics, userClinics, warehouses)
       ELSE Reply(201, "",
                  Append(clinics, clinic),
                  userClinics \cup {[user_id |-> u, clinic_id |-> id, is_active |-> TRUE]},
                  createDefaultWarehousesForBranch(warehouses, t, id, whFails))

\* The bodies PUT /api/clinics/:id is tried with, over the fields of the hierarchy model.
ClinicUpdateBodies ==
    [is_active : {Absent, Some(TRUE), Some(FALSE)},
     is_main_clinic : {Absent, Some(TRUE), Some(FALSE)},
     parent_clinic_id : {Absent, Some(NullId)}]

\* Sanitizers that forget one of the two deletes of updateClinic.
SanitizeClinicUpdateKeepingMain(body) == [body EXCEPT !.parent_clinic_id = Absent]

SanitizeClinicUpdateKeepingParent(body) == [body EXCEPT !.is_main_clinic = Absent]

\* A sanitizer that forgets both.
SanitizeClinicUpdateKeepingBoth(body) == body

\* updateClinic: updateData = {...req.body} without is_main_clinic and parent_clinic_id.
SanitizeClinicUpdate(body) ==
    [body EXCEPT !.is_main_clinic = Absent, !.parent_clinic_id = Absent]

\* Clinic.findByIdAndUpdate(id, updateData): the fields sent replace the stored ones.
ApplyClinicUpdate(doc, updateData) ==
    [tenant_id |-> doc.tenant_id,
     is_main_clinic |-> IF updateData.is_main_clinic = Absent
                        THEN doc.is_main_clinic ELSE Get(updateData.is_main_clinic),
     parent_clinic_id |-> IF updateData.parent_clinic_id = Absent
                          THEN doc.parent_clinic_id ELSE Get(updateData.parent_clinic_id),
     is_active |-> IF updateData.is_active = Absent
                   THEN doc.is_active ELSE Get(updateData.is_active)]

\* PUT /api/clinics/:id by user u with global role `role`.  A membership created by
\* createClinic carries the admin role.
updateClinic(u, role, id, body) ==
    LET hasAdminAccess == role = "super_admin" \/ HasActiveMembership(userClinics, u, id)
        updateData == SanitizeClinicUpdate(body)
        statusValidation == validateMainClinicStatus(clinics[id].is_main_clinic, Get(body.is_active))
    IN IF ~hasAdminAccess
       THEN Reply(403, "Admin access required for this clinic", clinics, userClinics, warehouses)
       ELSE IF id \notin ClinicIds
       THEN Reply(404, "Clinic not found", clinics, userClinics, warehouses)
       ELSE IF body.is_active # Absent /\ ~statusValidation.valid
       THEN Reply(400, statusValidation.error, clinics, userClinics, warehouses)
       ELSE Reply(200, "",
                  [clinics EXCEPT ![id] = ApplyClinicUpdate(@, updateData)],
                  userClinics, warehouses)

\* DELETE /api/clinics/:id by user u with global role `role`.
deactivateClinic(u, role, id) ==
    LET deletionValidation == validateMainClinicDeletion(clinics, id, clinics[id].tenant_id)
        statusValidation == validateMainClinicStatus(clinics[id].is_main_clinic, FALSE)
    IN IF role \notin {"super_admin", "admin"}
       THEN Reply(403, "Only super administrators can deactivate clinics",
                  clinics, userClinics, warehouses)
       ELSE IF id \notin ClinicIds
       THEN Reply(404, "Clinic not found", clinics, userClinics, warehouses)
       ELSE IF ~deletionValidation.valid
       THEN Reply(400, deletionValidation.error, clinics, userClinics, warehouses)
       ELSE IF ~statusValidation.valid
       THEN Reply(400, statusValidation.error, clinics, userClinics, warehouses)
       ELSE Reply(200, "",
                  [clinics EXCEPT ![id].is_active = FALSE],
                  {IF m.clinic_id = id THEN [m EXCEPT !.is_active = FALSE] ELSE m
                     : m \in userClinics},
                  warehouses)

\* A handler's reply takes effect: the collections are as the handler left them.  A
\* refused request writes nothing and is a stuttering step.
Commit(r) ==
    /\ Len(r.clinics) <= MaxClinics
    /\ Len(r.warehouses) <= MaxWarehouses
    /\ clinics' = r.clinics
    /\ userClinics' = r.userClinics
    /\ warehouses' = r.warehouses
    /\ UNCHANGED <<item, pc, loc, statuses, reminderSent, delivered>>

CreateClinic(u, body, whFails) == Commit(createClinic(u, body, whFails))

UpdateClinic(u, role, id, body) == Commit(updateClinic(u, role, id, body))

DeactivateClinic(u, role, id) == Commit(deactivateClinic(u, role, id))

ClinicIdInputs == 1..MaxClinics

ClinicNext ==
    \/ \E u \in Users, body \in ClinicCreateBodies, whFails \in BOOLEAN :
          CreateClinic(u, body, whFails)
    \/ \E u \in Users, role \in UserRoles, id \in ClinicIdInputs, body \in ClinicUpdateBodies :
          UpdateClinic(u, role, id, body)
    \/ \E u \in Users, role \in UserRoles, id \in ClinicIdInputs : DeactivateClinic(u, role, id)

\* The clinic handlers, one request at a time, from an empty database.
SpecClinic == Init /\ [][ClinicNext]_vars

\* ------------------------------------------- createClinic, await by await
\* Two createClinic requests in flight.  The handler opens no transaction: every
\* awaited query reads the collections as they are when it runs.
Requests == {1, 2}

ClinicRequest(u) ==
    [user |-> u, existingMainClinic |-> NullId, tenantClinicsCount |-> 0,
     isMainClinic |-> FALSE, parentClinicId |-> NullId, id |-> NullId, status |-> 0]

InitClinicRace ==
    /\ clinics = <<>>
    /\ userClinics = {}
    /\ warehouses = <<>>
    /\ item = NoItem
    /\ statuses = <<>>
    /\ reminderSent = {}
    /\ delivered = NoDeliveries
    /\ pc = [r \in Requests |-> "findMain"]
    /\ loc \in [Requests -> {ClinicRequest(u) : u \in Users}]

\* The clinic document request r is about to store.
NewClinic(r) ==
    clinicData(TenantOf(loc[r].user), clinicBodyData(DefaultClinicBody),
               loc[r].isMainClinic, loc[r].parentClinicId)

\* Request r moves to `next` with its locals updated; the collections stay.
LocalStep(r, next, locals) ==
    /\ pc' = [pc EXCEPT ![r] = next]
    /\ loc' = [loc EXCEPT ![r] = locals]
    /\ UNCHANGED <<clinics, userClinics, warehouses, item, statuses, reminderSent, delivered>>

\* const existingMainClinic = await Clinic.findOne({tenant_id, is_main_clinic: true})
createClinic_findMain(r) ==
    /\ pc[r] = "findMain"
    /\ LocalStep(r, "count",
                 [loc[r] EXCEPT !.existingMainClinic =
                     FindMainClinic(clinics, TenantOf(loc[r].user))])

\* const tenantClinicsCount = await Clinic.countDocuments({tenant_id})
createClinic_count(r) ==
    /\ pc[r] = "count"
    /\ LocalStep(r, "decide",
                 [loc[r] EXCEPT !.tenantClinicsCount =
                     TenantClinicsCount(clinics, TenantOf(loc[r].user))])

\* The decision, with the membership queries of its last branch.
createClinic_decide(r) ==
    LET d == DecideFromReads(loc[r].existingMainClinic, loc[r].tenantClinicsCount,
                             clinics, userClinics, loc[r].user)
    IN /\ pc[r] = "decide"
       /\ IF ~d.ok
          THEN LocalStep(r, "done", [loc[r] EXCEPT !.status = 403])
          ELSE LocalStep(r, "validate",
                         [loc[r] EXCEPT !.isMainClinic = d.isMainClinic,
                                        !.parentClinicId = d.parentClinicId])

\* const validation = await validateClinicBusinessRules(...)
createClinic_validate(r) ==
    LET validation == validateClinicBusinessRules(clinics, TenantOf(loc[r].user),
                                                  loc[r].isMainClinic, loc[r].parentClinicId)
    IN /\ pc[r] = "validate"
       /\ IF ~validation.valid
          THEN LocalStep(r, "done", [loc[r] EXCEPT !.status = 400])
          ELSE LocalStep(r, "preSave", loc[r])

\* clinic.save(): the pre-save hook's query.
createClinic_preSave(r) ==
    /\ pc[r] = "preSave"
    /\ IF ~ClinicPreSaveOk(clinics, NewClinic(r))
       THEN LocalStep(r, "done", [loc[r] EXCEPT !.status = 500])
       ELSE LocalStep(r, "insert", loc[r])

\* clinic.save(): the insert.
createClinic_insert(r) ==
    /\ pc[r] = "insert"
    /\ clinics' = Append(clinics, NewClinic(r))
    /\ pc' = [pc EXCEPT ![r] = "membership"]
    /\ loc' = [loc EXCEPT ![r].id = Len(clinics) + 1]
    /\ UNCHANGED <<userClinics, warehouses, item, statuses, reminderSent, delivered>>

\* userClinic.save(): the creator's admin membership.
createClinic_membership(r) ==
    /\ pc[r] = "membership"
    /\ userClinics' = userClinics \cup
           {[user_id |-> loc[r].user, clinic_id |-> loc[r].id, is_active |-> TRUE]}
    /\ pc' = [pc EXCEPT ![r] = "provision"]
    /\ UNCHANGED <<clinics, warehouses, item, loc, statuses, reminderSent, delivered>>

\* createDefaultWarehousesForBranch in its try/catch, then the 201.
createClinic_provision(r, whFails) ==
    /\ pc[r] = "provision"
    /\ warehouses' = createDefaultWarehousesForBranch(warehouses, TenantOf(loc[r].user),
                                                       loc[r].id, whFails)
    /\ pc' = [pc EXCEPT ![r] = "done"]
    /\ loc' = [loc EXCEPT ![r].status = 201]
    /\ UNCHANGED <<clinics, userClinics, item, statuses, reminderSent, delivered>>

ClinicRaceNext ==
    \/ \E r \in Requests : createClinic_findMain(r)
    \/ \E r \in Requests : createClinic_count(r)
    \/ \E r \in Requests : createClinic_decide(r)
    \/ \E r \in Requests : createClinic_validate(r)
    \/ \E r \in Requests : createClinic_preSave(r)
    \/ \E r \in Requests : createClinic_insert(r)
    \/ \E r \in Requests : createClinic_membership(r)
    \/ \E r \in Requests, whFails \in BOOLEAN : createClinic_provision(r, whFails)

\* Two createClinic requests interleaving at their awaits.
SpecClinicRace == InitClinicRace /\ [][ClinicRaceNext]_vars

\* ---------------------------------------------------- WarehouseController
\* getTenantScopedFilter(req, filter) of middleware/auth: the filter with the
\* requester's tenant added.  TRUE when doc passes the added part.
getTenantScopedFilter(t, doc) == doc.tenant_id = t

\* Warehouse.findOne(getTenantScopedFilter(req, {_id: id, deleted_at: null})) != null.
FindWarehouse(ws, t, id) ==
    /\ id \in 1..Len(ws)
    /\ getTenantScopedFilter(t, ws[id])
    /\ ~ws[id].deleted_at

\* A branch lookup that leaves the requester's tenant out of the filter.
FindBranchesAnyTenant(cs, t, ids) == {i \in 1..Len(cs) : i \in Range(ids)}

\* Clinic.find({...tenantFilter, _id: {$in: ids}}): the ids found.
FindBranches(cs, t, ids) ==
    {i \in 1..Len(cs) : getTenantScopedFilter(t, cs[i]) /\ i \in Range(ids)}

\* The first branch of branchIds, in order, that has a non-deleted MAIN warehouse
\* other than `exclude`; NullId when none has.
FirstBranchWithMain(ws, t, branchIds, exclude) ==
    LET hits == {i \in 1..Len(branchIds) : MainWarehouseExists(ws, t, branchIds[i], exclude)}
    IN IF hits = {} THEN NullId ELSE branchIds[Min(hits)]

\* GET /api/warehouses/:id in tenant t.
getWarehouseById(t, id) ==
    IF ~FindWarehouse(warehouses, t, id)
    THEN Refuse(404, "Warehouse not found")
    ELSE Reply(200, "", clinics, userClinics, warehouses)

\* POST /api/warehouses in tenant t.
createWarehouse(t, type, assignedBranches, status, isShared) ==
    LET uniqueBranchIds == UniqueSeq(assignedBranches)
        branches == FindBranches(clinics, t, uniqueBranchIds)
        existingMain == FirstBranchWithMain(warehouses, t, uniqueBranchIds, NullId)
        warehouse == [tenant_id |-> t, type |-> type,
                      status |-> IF status = Absent THEN "ACTIVE" ELSE Get(status),
                      assignedBranches |-> uniqueBranchIds,
                      isShared |-> isShared, deleted_at |-> FALSE]
    IN IF Len(assignedBranches) = 0
       THEN Refuse(400, "At least one branch must be assigned")
       ELSE IF Cardinality(branches) # Len(uniqueBranchIds)
       THEN Refuse(400, "One or more branches not found or do not belong to your tenant")
       ELSE IF Len(assignedBranches) # Len(uniqueBranchIds)
       THEN Refuse(400, "Duplicate branch IDs detected in assigned branches")
       ELSE IF type = "MAIN" /\ existingMain # NullId
       THEN RefuseNaming(400, "Branch already has a MAIN warehouse", existingMain)
       ELSE IF ~WarehousePreSaveOk(warehouses, warehouse, NullId)
       THEN RefuseNaming(400, "Branch already has a MAIN warehouse",
                         FirstBranchWithMain(warehouses, t, uniqueBranchIds, NullId))
       ELSE emitWarehouseEvent("warehouse.created",
                               Reply(201, "", clinics, userClinics,
                                     Append(warehouses, warehouse)))

\* PUT /api/warehouses/:id in tenant t.
updateWarehouse(t, id, body) ==
    LET warehouse == warehouses[id]
        sent == body.assignedBranches # Absent /\ Len(Get(body.assignedBranches)) > 0
        assignedBranches == Get(body.assignedBranches)
        uniqueBranchIds == UniqueSeq(assignedBranches)
        branches == FindBranches(clinics, t, uniqueBranchIds)
        checkMain == \/ body.type = Some("MAIN")
                     \/ (body.type = Absent /\ warehouse.type = "MAIN")
        existingMain == FirstBranchWithMain(warehouses, t, uniqueBranchIds, id)
        updated == [tenant_id |-> warehouse.tenant_id,
                    type |-> IF body.type # Absent THEN Get(body.type) ELSE warehouse.type,
                    status |-> IF body.status # Absent THEN Get(body.status) ELSE warehouse.status,
                    assignedBranches |-> IF sent THEN uniqueBranchIds
                                         ELSE warehouse.assignedBranches,
                    isShared |-> IF body.isShared # Absent THEN Get(body.isShared)
                                 ELSE warehouse.isShared,
                    deleted_at |-> warehouse.deleted_at]
    IN IF ~FindWarehouse(warehouses, t, id)
       THEN Refuse(404, "Warehouse not found")
       ELSE IF sent /\ Cardinality(branches) # Len(uniqueBranchIds)
       THEN Refuse(400, "One or more branches not found or do not belong to your tenant")
       ELSE IF sent /\ Len(assignedBranches) # Len(uniqueBranchIds)
       THEN Refuse(400, "Duplicate branch IDs detected in assigned branches")
       ELSE IF sent /\ checkMain /\ existingMain # NullId
       THEN RefuseNaming(400, "Branch already has a MAIN warehouse", existingMain)
       ELSE IF ~WarehousePreSaveOk(warehouses, updated, id)
       THEN Refuse(500, "Error updating warehouse")
       ELSE emitWarehouseEvent("warehouse.updated",
                               Reply(200, "", clinics, userClinics,
                                     [warehouses EXCEPT ![id] = updated]))

\* PATCH /api/warehouses/:id/status in tenant t.
updateWarehouseStatus(t, id, status) ==
    IF status \notin {"ACTIVE", "INACTIVE"}
    THEN Refuse(400, "Status must be ACTIVE or INACTIVE")
    ELSE IF ~FindWarehouse(warehouses, t, id)
    THEN Refuse(404, "Warehouse not found")
    ELSE emitWarehouseEvent("warehouse.statusChanged",
                            Reply(200, "", clinics, userClinics,
                                  [warehouses EXCEPT ![id].status = status]))

\* A count that looks at branchWarehouses only.
ItemsWithWarehouseMapped(it, t, id) ==
    /\ it.exists
    /\ getTenantScopedFilter(t, it)
    /\ \E i \in 1..Len(it.branchWarehouses) : it.branchWarehouses[i].warehouseId = id

\* Inventory.countDocuments({...tenantFilter, $or: [{'branchWarehouses.warehouseId': id},
\* {'stockByBranchWarehouse.warehouseId': id}]}) > 0.
ItemsWithWarehouse(it, t, id) ==
    /\ it.exists
    /\ getTenantScopedFilter(t, it)
    /\ \/ \E i \in 1..Len(it.branchWarehouses) : it.branchWarehouses[i].warehouseId = id
       \/ \E i \in 1..Len(it.stockByBranchWarehouse) :
              it.stockByBranchWarehouse[i].warehouseId = id

\* DELETE /api/warehouses/:id in tenant t: a soft delete.
deleteWarehouse(t, id) ==
    LET deleted == [warehouses[id] EXCEPT !.deleted_at = TRUE, !.status = "INACTIVE"]
    IN IF ~FindWarehouse(warehouses, t, id)
       THEN Refuse(404, "Warehouse not found")
       ELSE IF ItemsWithWarehouse(item, t, id)
       THEN Refuse(400, "Cannot delete warehouse. There are items assigned to this warehouse.")
       ELSE IF ~WarehousePreSaveOk(warehouses, deleted, id)
       THEN Refuse(500, "Error deleting warehouse")
       ELSE emitWarehouseEvent("warehouse.deleted",
                               Reply(200, "", clinics, userClinics,
                                     [warehouses EXCEPT ![id] = deleted]))

GetWarehouseById(t, id) == Commit(getWarehouseById(t, id))

CreateWarehouse(t, type, assignedBranches, status, isShared) ==
    Commit(createWarehouse(t, type, assignedBranches, status, isShared))

UpdateWarehouse(t, id, body) == Commit(updateWarehouse(t, id, body))

UpdateWarehouseStatus(t, id, status) ==
    Commit(updateWarehouseStatus(t, id, status))

DeleteWarehouse(t, id) == Commit(deleteWarehouse(t, id))

\* createDefaultWarehousesForBranch called again for a branch that exists.
CreateDefaultWarehousesForBranch(b, dbFails) ==
    /\ b \in ClinicIds
    /\ Commit(Reply(IF dbFails THEN 500 ELSE 200, "", clinics, userClinics,
                    createDefaultWarehousesForBranch(warehouses, clinics[b].tenant_id, b, dbFails)))

\* The request inputs the warehouse handlers are tried with.  The last branch id
\* is one no clinic has.
BranchIdInputs == 1..(MaxBranches + 1)

BranchListInputs ==
    {<<>>, <<1, 1>>} \cup {<<a>> : a \in BranchIdInputs}
        \cup {<<p[1], p[2]>> : p \in {q \in BranchIdInputs \X BranchIdInputs : q[1] < q[2]}}

WarehouseIdInputs == 1..MaxWarehouses

WarehouseUpdateBodies ==
    [type : {Absent, Some("MAIN"), Some("SUB")},
     assignedBranches : {Absent} \cup {Some(l) : l \in BranchListInputs},
     status : {Absent},
     isShared : {Absent}]

\* The user whose clinics the warehouse specification creates: tenant 1 has branches,
\* tenant 2 has none and only sends requests.
BranchCreators == {1}

WarehouseNext ==
    \/ \E u \in BranchCreators, whFails \in BOOLEAN :
          Len(clinics) < MaxBranches /\ CreateClinic(u, DefaultClinicBody, whFails)
    \/ \E t \in Tenants, id \in WarehouseIdInputs : GetWarehouseById(t, id)
    \/ \E t \in Tenants, type \in {"MAIN", "SUB"}, l \in BranchListInputs :
          CreateWarehouse(t, type, l, Absent, FALSE)
    \/ \E t \in Tenants, id \in WarehouseIdInputs, body \in WarehouseUpdateBodies :
          UpdateWarehouse(t, id, body)
    \/ \E t \in Tenants, id \in WarehouseIdInputs, status \in {"ACTIVE", "INACTIVE"} :
          UpdateWarehouseStatus(t, id, status)
    \/ \E t \in Tenants, id \in WarehouseIdInputs : DeleteWarehouse(t, id)
    \/ \E b \in BranchIdInputs, dbFails \in BOOLEAN : CreateDefaultWarehousesForBranch(b, dbFails)

\* The warehouse handlers and branch onboarding, one request at a time.
SpecWarehouse == Init /\ [][WarehouseNext]_vars

\* ------------------------------- MAIN warehouse requests, await by await
\* Two requests in flight that each would give branch RaceBranch a MAIN warehouse:
\* createWarehouse with type MAIN, updateWarehouse turning a SUB warehouse of the
\* branch into a MAIN one, or createDefaultWarehousesForBranch.  Each runs in its own
\* transaction: what it reads through the session is the committed data of its first
\* read, what it writes is seen by others once it commits.  The pre-save hook's
\* findOne is not given the session and reads the committed data of its own moment.
RaceBranch == 1

RaceTenant == 1

MainRequestKinds == {"createWarehouse", "updateWarehouse", "createDefaultWarehousesForBranch"}

\* The database the requests start from: the branch, left without a MAIN warehouse
\* by a failed provisioning, and one SUB warehouse per request for updateWarehouse.
RaceWarehouses ==
    [r \in Requests |->
        [tenant_id |-> RaceTenant, type |-> "SUB", status |-> "ACTIVE",
         assignedBranches |-> <<RaceBranch>>, isShared |-> FALSE, deleted_at |-> FALSE]]

MainRequest(kind) == [kind |-> kind, status |-> 0, error |-> "", stored |-> FALSE]

InitWarehouseRace ==
    /\ clinics = <<[tenant_id |-> RaceTenant, is_main_clinic |-> TRUE,
                    parent_clinic_id |-> NullId, is_active |-> TRUE]>>
    /\ userClinics = {[user_id |-> 1, clinic_id |-> RaceBranch, is_active |-> TRUE]}
    /\ warehouses = RaceWarehouses
    /\ item = NoItem
    /\ statuses = <<>>
    /\ reminderSent = {}
    /\ delivered = NoDeliveries
    /\ pc = [r \in Requests |-> "check"]
    /\ loc \in [Requests -> {MainRequest(k) : k \in MainRequestKinds}]

\* The warehouse request r excludes from its queries: itself when it updates.
RaceSelf(r) == IF loc[r].kind = "updateWarehouse" THEN r ELSE NullId

\* The document request r saves.
RaceDocument(r) ==
    IF loc[r].kind = "updateWarehouse"
    THEN [warehouses[r] EXCEPT !.type = "MAIN"]
    ELSE [tenant_id |-> RaceTenant, type |-> "MAIN", status |-> "ACTIVE",
          assignedBranches |-> <<RaceBranch>>, isShared |-> FALSE, deleted_at |-> FALSE]

\* The handler's own findOne(...).session(session) for a MAIN warehouse of the branch.
MainRequest_check(r) ==
    /\ pc[r] = "check"
    /\ IF MainWarehouseExists(warehouses, RaceTenant, RaceBranch, RaceSelf(r))
       THEN LocalStep(r, "done",
                      IF loc[r].kind = "createDefaultWarehousesForBranch"
                      THEN [loc[r] EXCEPT !.status = 200]
                      ELSE [loc[r] EXCEPT !.status = 400,
                                          !.error = "Branch already has a MAIN warehouse"])
       ELSE LocalStep(r, "preSave", loc[r])

\* warehouse.save({session}): the pre-save hook.
MainRequest_preSave(r) ==
    /\ pc[r] = "preSave"
    /\ IF ~WarehousePreSaveOk(warehouses, RaceDocument(r), RaceSelf(r))
       THEN LocalStep(r, "done",
                      IF loc[r].kind = "updateWarehouse"
                      THEN [loc[r] EXCEPT !.status = 500, !.error = "Error updating warehouse"]
                      ELSE IF loc[r].kind = "createWarehouse"
                      THEN [loc[r] EXCEPT !.status = 400,
                                          !.error = "Branch already has a MAIN warehouse"]
                      ELSE [loc[r] EXCEPT !.status = 500,
                                          !.error = "Branch already has a MAIN warehouse"])
       ELSE LocalStep(r, "commit", loc[r])

\* warehouse.save({session}) writes and session.commitTransaction() publishes it.  The
\* two requests write different documents, so neither write conflicts with the other.
MainRequest_commit(r) ==
    /\ pc[r] = "commit"
    /\ warehouses' = IF loc[r].kind = "updateWarehouse"
                     THEN [warehouses EXCEPT ![r] = RaceDocument(r)]
                     ELSE Append(warehouses, RaceDocument(r))
    /\ pc' = [pc EXCEPT ![r] = "done"]
    /\ loc' = [loc EXCEPT ![r].status = IF loc[r].kind = "createWarehouse" THEN 201 ELSE 200,
                          ![r].stored = TRUE]
    /\ UNCHANGED <<clinics, userClinics, item, statuses, reminderSent, delivered>>

WarehouseRaceNext ==
    \/ \E r \in Requests : MainRequest_check(r)
    \/ \E r \in Requests : MainRequest_preSave(r)
    \/ \E r \in Requests : MainRequest_commit(r)

\* Two MAIN warehouse requests for one branch interleaving at their awaits.
SpecWarehouseRace == InitWarehouseRace /\ [][WarehouseRaceNext]_vars

\* ------------------------------------------------------------- Inventory
Abs(x) == IF x < 0 THEN -x ELSE x

\* stockByBranchWarehouse.find(entry => entry.branchId == b && entry.warehouseId == w):
\* the index of the first match, 0 when there is none.
StockEntryIndex(entries, b, w) ==
    LET hits == {i \in 1..Len(entries) :
                    entries[i].branchId = b /\ entries[i].warehouseId = w}
    IN IF hits = {} THEN 0 ELSE Min(hits)

\* Warehouse.findById(id) != null: no tenant, status or deleted_at filter.
WarehouseById(ws, id) == id \in 1..Len(ws)

\* The else branches of updateStock that move the global current_stock.
UpdateCurrentStock(it, quantity, operation) ==
    IF operation = "add"
    THEN [it EXCEPT !.current_stock = @ + Abs(quantity)]
    ELSE [it EXCEPT !.current_stock = Max(0, @ - Abs(quantity))]

\* A non-shared branch that looks for no entry: every update pushes one.
UpdateStockEntryAlwaysPushing(it, quantity, operation, branchId, warehouseId) ==
    [it EXCEPT !.stockByBranchWarehouse =
        Append(@, [branchId |-> branchId, warehouseId |-> warehouseId,
                   stock |-> IF operation = "add" THEN Abs(quantity) ELSE 0])]

\* A non-shared branch without the migration baseline: a subtract on a pair the item
\* has no entry for always creates the entry at 0.
UpdateStockEntryWithoutBaseline(it, quantity, operation, branchId, warehouseId) ==
    LET k == StockEntryIndex(it.stockByBranchWarehouse, branchId, warehouseId)
        initialStock == IF operation = "add" THEN Abs(quantity) ELSE 0
    IN IF k # 0
       THEN IF operation = "add"
            THEN [it EXCEPT !.stockByBranchWarehouse[k].stock = @ + Abs(quantity)]
            ELSE [it EXCEPT !.stockByBranchWarehouse[k].stock = Max(0, @ - Abs(quantity))]
       ELSE [it EXCEPT !.stockByBranchWarehouse =
                Append(@, [branchId |-> branchId, warehouseId |-> warehouseId,
                           stock |-> initialStock])]

\* updateStock's non-shared branch: the (branchId, warehouseId) entry is moved, or
\* pushed when the item has none.
UpdateStockEntry(it, quantity, operation, branchId, warehouseId) ==
    LET k == StockEntryIndex(it.stockByBranchWarehouse, branchId, warehouseId)
        initialStock ==
            IF operation = "add" THEN Abs(quantity)
            ELSE IF Len(it.stockByBranchWarehouse) = 0 /\ it.current_stock > 0
            THEN Max(0, it.current_stock - Abs(quantity))
            ELSE 0
    IN IF k # 0
       THEN IF operation = "add"
            THEN [it EXCEPT !.stockByBranchWarehouse[k].stock = @ + Abs(quantity)]
            ELSE [it EXCEPT !.stockByBranchWarehouse[k].stock = Max(0, @ - Abs(quantity))]
       ELSE [it EXCEPT !.stockByBranchWarehouse =
                Append(@, [branchId |-> branchId, warehouseId |-> warehouseId,
                           stock |-> initialStock])]

\* The document in memory after updateStock's assignments, before its save.
MutateStock(it, ws, quantity, operation, branchId, warehouseId) ==
    IF branchId # NullId /\ warehouseId # NullId
    THEN IF ~WarehouseById(ws, warehouseId)
         THEN UpdateCurrentStock(it, quantity, operation)
         ELSE IF ws[warehouseId].isShared
         THEN UpdateCurrentStock(it, quantity, operation)
         ELSE UpdateStockEntry(it, quantity, operation, branchId, warehouseId)
    ELSE UpdateCurrentStock(it, quantity, operation)

\* The schema validators of the stock fields (min: 0), run by save().
ItemValid(it) ==
    /\ it.current_stock >= 0
    /\ \A i \in 1..Len(it.stockByBranchWarehouse) : it.stockByBranchWarehouse[i].stock >= 0

\* An update with neither the Math.max floor nor the validators of save(): the
\* quantity is added or taken away as it is.
updateStockUnguarded(it, ws, quantity, operation, branchId, warehouseId) ==
    LET d == IF operation = "add" THEN Abs(quantity) ELSE 0 - Abs(quantity)
        k == StockEntryIndex(it.stockByBranchWarehouse, branchId, warehouseId)
        global == [ok |-> TRUE, item |-> [it EXCEPT !.current_stock = @ + d]]
    IN IF branchId = NullId \/ warehouseId = NullId THEN global
       ELSE IF ~WarehouseById(ws, warehouseId) THEN global
       ELSE IF ws[warehouseId].isShared THEN global
       ELSE IF k # 0
       THEN [ok |-> TRUE, item |-> [it EXCEPT !.stockByBranchWarehouse[k].stock = @ + d]]
       ELSE [ok |-> TRUE,
             item |-> [it EXCEPT !.stockByBranchWarehouse =
                          Append(@, [branchId |-> branchId, warehouseId |-> warehouseId,
                                     stock |-> d])]]

\* An update whose non-shared branch also moves current_stock.
updateStockSummed(it, ws, quantity, operation, branchId, warehouseId) ==
    LET doc == MutateStock(it, ws, quantity, operation, branchId, warehouseId)
    IN [ok |-> TRUE,
        item |-> IF doc.current_stock = it.current_stock
                 THEN UpdateCurrentStock(doc, quantity, operation)
                 ELSE doc]

\* InventorySchema.methods.updateStock on the stored document `it`: [ok, item], the
\* document stored afterwards; ok is FALSE when save() fails validation.
updateStock(it, ws, quantity, operation, branchId, warehouseId) ==
    LET doc == MutateStock(it, ws, quantity, operation, branchId, warehouseId)
    IN IF ItemValid(doc)
       THEN [ok |-> TRUE, item |-> doc]
       ELSE [ok |-> FALSE, item |-> it]

\* What an inventory handler answers and the document it leaves stored.
ItemReply(status, error, detail, it) ==
    [status |-> status, error |-> error, detail |-> detail, item |-> it]

\* A lookup that leaves status out of the filter.
FindMainWarehouseAnyStatus(ws, t, b) ==
    LET hits == {i \in 1..Len(ws) :
                    /\ ws[i].tenant_id = t
                    /\ ws[i].type = "MAIN"
                    /\ b \in Range(ws[i].assignedBranches)
                    /\ ~ws[i].deleted_at}
    IN IF hits = {} THEN NullId ELSE Min(hits)

\* Warehouse.findOne({tenant_id, type: 'MAIN', assignedBranches: b, deleted_at: null,
\* status: 'ACTIVE'}): the id of the first match, or NullId.
FindActiveMainWarehouse(ws, t, b) ==
    LET hits == {i \in 1..Len(ws) :
                    /\ ws[i].tenant_id = t
                    /\ ws[i].type = "MAIN"
                    /\ b \in Range(ws[i].assignedBranches)
                    /\ ~ws[i].deleted_at
                    /\ ws[i].status = "ACTIVE"}
    IN IF hits = {} THEN NullId ELSE Min(hits)

\* createInventoryItem's branchWarehouses: the mapping sent, else one pair per
\* assigned branch that has an active MAIN warehouse, else none.
ProcessBranchWarehouses(ws, t, assignedBranches, branchWarehouses) ==
    IF branchWarehouses # Absent
    THEN Get(branchWarehouses)
    ELSE IF assignedBranches # Absent
    THEN LET ab == Get(assignedBranches)
             pairs == [i \in 1..Len(ab) |->
                          [branchId |-> ab[i],
                           warehouseId |-> FindActiveMainWarehouse(ws, t, ab[i])]]
             found(bw) == bw.warehouseId # NullId
         IN SelectSeq(pairs, found)
    ELSE <<>>

\* A seeding that skips no repeated pair.
SeedStockByBranchWarehousePerMention(ws, processed, initialStock) ==
    LET nonShared(bw) == WarehouseById(ws, bw.warehouseId) /\ ~ws[bw.warehouseId].isShared
        kept == SelectSeq(processed, nonShared)
    IN [i \in 1..Len(kept) |->
           [branchId |-> kept[i].branchId, warehouseId |-> kept[i].warehouseId,
            stock |-> initialStock]]

\* createInventoryItem's seeding: one entry holding the full initial stock for each
\* distinct pair whose warehouse exists and is not shared.
SeedStockByBranchWarehouse(ws, processed, initialStock) ==
    LET nonShared(bw) == WarehouseById(ws, bw.warehouseId) /\ ~ws[bw.warehouseId].isShared
        kept == SelectSeq(UniqueSeq(processed), nonShared)
    IN [i \in 1..Len(kept) |->
           [branchId |-> kept[i].branchId, warehouseId |-> kept[i].warehouseId,
            stock |-> initialStock]]

\* POST /api/inventory in tenant t from clinic c.
createInventoryItem(t, c, current_stock, assignedBranches, branchWarehouses) ==
    LET processed == ProcessBranchWarehouses(warehouses, t, assignedBranches, branchWarehouses)
        doc == [exists |-> TRUE, tenant_id |-> t, clinic_id |-> c,
                assignedBranches |-> IF assignedBranches = Absent THEN <<>>
                                     ELSE Get(assignedBranches),
                current_stock |-> current_stock,
                branchWarehouses |-> processed,
                stockByBranchWarehouse |->
                    SeedStockByBranchWarehouse(warehouses, processed, current_stock),
                version |-> 0]
    IN IF ~ItemValid(doc)
       THEN ItemReply(500, "Internal server error", NullId, item)
       ELSE ItemReply(201, "", NullId, doc)

\* PUT /api/inventory/:id in tenant t from clinic c: the item is found by tenant and
\* clinic_id, and the assignedBranches and branchWarehouses sent replace the stored ones.
updateInventoryItem(t, c, assignedBranches, branchWarehouses) ==
    LET updated == [item EXCEPT
                       !.assignedBranches = IF assignedBranches = Absent THEN @
                                            ELSE Get(assignedBranches),
                       !.branchWarehouses = IF branchWarehouses = Absent THEN @
                                            ELSE Get(branchWarehouses)]
    IN IF ~(item.exists /\ getTenantScopedFilter(t, item) /\ item.clinic_id = c)
       THEN ItemReply(404, "Inventory item not found", NullId, item)
       ELSE ItemReply(200, "", NullId, updated)

\* DELETE /api/inventory/:id from clinic c: Inventory.findOneAndDelete({_id, clinic_id}).
deleteInventoryItem(c) ==
    IF ~(item.exists /\ item.clinic_id = c)
    THEN ItemReply(404, "Inventory item not found", NullId, item)
    ELSE ItemReply(200, "", NullId, NoItem)

\* Inventory.findOne({_id, ...tenantFilter, $or: [{clinic_id: c}, {assignedBranches: c}]}).
FindItem(it, t, c) ==
    /\ it.exists
    /\ getTenantScopedFilter(t, it)
    /\ (it.clinic_id = c \/ c \in Range(it.assignedBranches))

\* A pre-check that always measures against current_stock.
AvailableStockGlobal(it, ws, branchId, warehouseId) == it.current_stock

\* The availableStock of updateStock's subtract pre-check, the warehouse being known.
AvailableStock(it, ws, branchId, warehouseId) ==
    LET k == StockEntryIndex(it.stockByBranchWarehouse, branchId, warehouseId)
    IN IF branchId # NullId /\ warehouseId # NullId
       THEN IF ws[warehouseId].isShared THEN it.current_stock
            ELSE IF Len(it.stockByBranchWarehouse) = 0 THEN it.current_stock
            ELSE IF k # 0 THEN it.stockByBranchWarehouse[k].stock
            ELSE it.current_stock
       ELSE it.current_stock

\* updateStock's subtract pre-check on the document read: the refusal, or a reply
\* with status 0 when the request goes on.
PreCheck(it, ws, quantity, operation, branchId, warehouseId) ==
    LET availableStock == AvailableStock(it, ws, branchId, warehouseId)
    IN IF /\ operation = "subtract"
          /\ branchId # NullId /\ warehouseId # NullId
          /\ ~WarehouseById(ws, warehouseId)
       THEN ItemReply(400, "Warehouse not found", NullId, it)
       ELSE IF operation = "subtract" /\ quantity > availableStock
       THEN ItemReply(400, "Cannot subtract more than available stock", availableStock, it)
       ELSE ItemReply(0, "", NullId, it)

\* PATCH /api/inventory/:id/stock in tenant t from clinic c, `it` being the stored
\* document.  The controller's own save() after item.updateStock() finds nothing
\* modified and writes nothing.
InventoryController_updateStock(it, ws, t, c, quantity, operation, branchId, warehouseId) ==
    LET refusal == PreCheck(it, ws, quantity, operation, branchId, warehouseId)
        saved == updateStock(it, ws, quantity, operation, branchId, warehouseId)
    IN IF quantity <= 0
       THEN ItemReply(400, "Quantity must be a positive number", NullId, it)
       ELSE IF ~FindItem(it, t, c)
       THEN ItemReply(404, "Inventory item not found or not accessible", NullId, it)
       ELSE IF refusal.status # 0
       THEN refusal
       ELSE IF ~saved.ok
       THEN ItemReply(500, "Internal server error", NullId, it)
       ELSE ItemReply(200, "", NullId, saved.item)

\* The largest stock figure of a document.
TopStock(it) ==
    IF ~it.exists THEN 0
    ELSE LET figures == {it.current_stock} \cup
                        {it.stockByBranchWarehouse[i].stock :
                            i \in 1..Len(it.stockByBranchWarehouse)}
         IN CHOOSE x \in figures : \A y \in figures : y <= x

\* An inventory handler's reply takes effect.
ItemCommit(r) ==
    /\ TopStock(r.item) <= MaxStock
    /\ item' = r.item
    /\ UNCHANGED <<clinics, userClinics, warehouses, pc, loc, statuses, reminderSent, delivered>>

CreateInventoryItem(t, c, current_stock, assignedBranches, branchWarehouses) ==
    /\ ~item.exists
    /\ ItemCommit(createInventoryItem(t, c, current_stock, assignedBranches, branchWarehouses))

UpdateStock(t, c, quantity, operation, branchId, warehouseId) ==
    ItemCommit(InventoryController_updateStock(item, warehouses, t, c, quantity, operation,
                                               branchId, warehouseId))

\* item.updateStock(...) called on the stored document without the controller.
ItemUpdateStock(quantity, operation, branchId, warehouseId) ==
    /\ item.exists
    /\ ItemCommit(ItemReply(200, "", NullId,
                             updateStock(item, warehouses, quantity, operation,
                                         branchId, warehouseId).item))

\* The database the inventory specification starts from: tenant 1 with a Main Clinic
\* and a Sub Clinic, each with the MAIN warehouse provisioned for it, a non-shared
\* SUB warehouse and a shared one assigned to both.
StockClinics ==
    <<[tenant_id |-> 1, is_main_clinic |-> TRUE, parent_clinic_id |-> NullId, is_active |-> TRUE],
      [tenant_id |-> 1, is_main_clinic |-> FALSE, parent_clinic_id |-> 1, is_active |-> TRUE]>>

StockUserClinics ==
    {[user_id |-> 1, clinic_id |-> 1, is_active |-> TRUE],
     [user_id |-> 1, clinic_id |-> 2, is_active |-> TRUE]}

StockWarehouses ==
    <<[tenant_id |-> 1, type |-> "MAIN", status |-> "ACTIVE", assignedBranches |-> <<1>>,
       isShared |-> FALSE, deleted_at |-> FALSE],
      [tenant_id |-> 1, type |-> "MAIN", status |-> "ACTIVE", assignedBranches |-> <<2>>,
       isShared |-> FALSE, deleted_at |-> FALSE],
      [tenant_id |-> 1, type |-> "SUB", status |-> "ACTIVE", assignedBranches |-> <<1, 2>>,
       isShared |-> FALSE, deleted_at |-> FALSE],
      [tenant_id |-> 1, type |-> "SUB", status |-> "ACTIVE", assignedBranches |-> <<1, 2>>,
       isShared |-> TRUE, deleted_at |-> FALSE]>>

InitStock ==
    /\ clinics = StockClinics
    /\ userClinics = StockUserClinics
    /\ warehouses = StockWarehouses
    /\ item = NoItem
    /\ statuses = <<>>
    /\ reminderSent = {}
    /\ delivered = NoDeliveries
    /\ pc = <<>>
    /\ loc = <<>>

\* The request inputs the inventory handlers are tried with.  Warehouse 3 is the
\* non-shared one, 4 the shared one, 5 is the id of no warehouse.
Pair(b, w) == [branchId |-> b, warehouseId |-> w]

ItemMappingInputs ==
    {[assignedBranches |-> Absent, branchWarehouses |-> Absent],
     [assignedBranches |-> Some(<<1, 2>>), branchWarehouses |-> Absent],
     [assignedBranches |-> Some(<<1>>), branchWarehouses |-> Some(<<Pair(1, 3)>>)],
     [assignedBranches |-> Some(<<1, 2>>),
      branchWarehouses |-> Some(<<Pair(1, 3), Pair(2, 3), Pair(1, 3)>>)],
     [assignedBranches |-> Some(<<1, 2>>), branchWarehouses |-> Some(<<Pair(1, 4), Pair(2, 4)>>)]}

StockInputs == (0 - 1)..MaxStock

QuantityInputs == (0 - 1)..MaxQty

OperationInputs == {"add", "subtract"}

StockBranchInputs == {NullId, 1, 2}

StockWarehouseInputs == {NullId, 3, 4, 5}

StockNext ==
    \/ \E t \in Tenants, c \in {1, 2}, s \in StockInputs, m \in ItemMappingInputs :
          CreateInventoryItem(t, c, s, m.assignedBranches, m.branchWarehouses)
    \/ \E t \in Tenants, c \in {1, 2}, q \in QuantityInputs, op \in OperationInputs,
           b \in StockBranchInputs, w \in StockWarehouseInputs :
          UpdateStock(t, c, q, op, b, w)
    \/ \E q \in QuantityInputs \ {0}, op \in OperationInputs,
           b \in StockBranchInputs, w \in StockWarehouseInputs :
          ItemUpdateStock(q, op, b, w)

\* The inventory handlers, one request at a time, on one item.
SpecStock == InitStock /\ [][StockNext]_vars

\* ------------------------------------- items and warehouses side by side
UpdateInventoryItem(t, c, assignedBranches, branchWarehouses) ==
    ItemCommit(updateInventoryItem(t, c, assignedBranches, branchWarehouses))

DeleteInventoryItem(c) == ItemCommit(deleteInventoryItem(c))

\* The database the assignment specification starts from: tenant 1 with a Main Clinic,
\* whose MAIN warehouse was provisioned, a Sub Clinic, whose provisioning failed, and
\* a non-shared SUB warehouse assigned to both.
AssignmentWarehouses ==
    <<[tenant_id |-> 1, type |-> "MAIN", status |-> "ACTIVE", assignedBranches |-> <<1>>,
       isShared |-> FALSE, deleted_at |-> FALSE],
      [tenant_id |-> 1, type |-> "SUB", status |-> "ACTIVE", assignedBranches |-> <<1, 2>>,
       isShared |-> FALSE, deleted_at |-> FALSE]>>

InitAssignment ==
    /\ clinics = StockClinics
    /\ userClinics = StockUserClinics
    /\ warehouses = AssignmentWarehouses
    /\ item = NoItem
    /\ statuses = <<>>
    /\ reminderSent = {}
    /\ delivered = NoDeliveries
    /\ pc = <<>>
    /\ loc = <<>>

\* The mappings the item handlers are tried with: none, one derived from the
\* branches (branch 1 has a MAIN warehouse while warehouse 1 is not deleted), one
\* sent for the SUB warehouse, and an empty one.
AssignmentMappingInputs ==
    {[assignedBranches |-> Absent, branchWarehouses |-> Absent],
     [assignedBranches |-> Some(<<1, 2>>), branchWarehouses |-> Absent],
     [assignedBranches |-> Some(<<1>>), branchWarehouses |-> Some(<<Pair(1, 2)>>)],
     [assignedBranches |-> Absent, branchWarehouses |-> Some(<<>>)]}

\* The warehouses stock updates name: the two of the starting database.
AssignmentWarehouseInputs == {1, 2}

AssignmentNext ==
    \/ \E t \in Tenants, c \in {1, 2}, m \in AssignmentMappingInputs :
          CreateInventoryItem(t, c, 1, m.assignedBranches, m.branchWarehouses)
    \/ \E t \in Tenants, c \in {1, 2}, m \in AssignmentMappingInputs :
          UpdateInventoryItem(t, c, m.assignedBranches, m.branchWarehouses)
    \/ \E t \in Tenants, c \in {1, 2}, op \in OperationInputs,
           w \in AssignmentWarehouseInputs :
          UpdateStock(t, c, 1, op, 1, w)
    \/ \E c \in {1, 2} : DeleteInventoryItem(c)
    \/ \E t \in Tenants, id \in WarehouseIdInputs : DeleteWarehouse(t, id)
    \/ \E t \in Tenants, id \in WarehouseIdInputs, status \in {"ACTIVE", "INACTIVE"} :
          UpdateWarehouseStatus(t, id, status)

\* The item handlers, deleteWarehouse and updateWarehouseStatus, one request at a
\* time, on one item.
SpecAssignment == InitAssignment /\ [][AssignmentNext]_vars

\* ------------------------------------------- AppointmentStatusController
MaxStatuses == 3

\* What a status handler answers and the collection it leaves.
StatusReply(status, error, sts) == [status |-> status, error |-> error, statuses |-> sts]

\* code.toLowerCase() over the codes the handlers are tried with.
ToLowerCase(code) == IF code = "Scheduled" THEN "scheduled" ELSE code

\* The statuses of (tenant t, clinic c) matching is_default: true, other than `exclude`,
\* with is_default set to false: AppointmentStatus.updateMany(..., {$set: {is_default: false}}).
UnsetDefaults(sts, t, c, exclude) ==
    [i \in 1..Len(sts) |->
        IF sts[i].tenant_id = t /\ sts[i].clinic_id = c /\ sts[i].is_default /\ i # exclude
        THEN [sts[i] EXCEPT !.is_default = FALSE]
        ELSE sts[i]]

\* AppointmentStatus.findOne({_id: id, tenant_id, clinic_id}) != null.
FindStatus(sts, t, c, id) ==
    /\ id \in 1..Len(sts)
    /\ sts[id].tenant_id = t
    /\ sts[id].clinic_id = c

\* POST /api/settings/statuses in the context of tenant t and clinic c.
createStatus(t, c, code, is_default) ==
    LET existingStatus == \E i \in 1..Len(statuses) :
                              /\ statuses[i].tenant_id = t
                              /\ statuses[i].clinic_id = c
                              /\ statuses[i].code = ToLowerCase(code)
        cleared == IF is_default = Some(TRUE)
                   THEN UnsetDefaults(statuses, t, c, NullId) ELSE statuses
        statusData == [tenant_id |-> t, clinic_id |-> c, code |-> ToLowerCase(code),
                       is_active |-> TRUE,
                       is_default |-> IF is_default = Absent THEN FALSE ELSE Get(is_default)]
    IN IF existingStatus
       THEN StatusReply(409, "Status code already exists for this clinic", statuses)
       ELSE StatusReply(201, "", Append(cleared, statusData))

\* PUT /api/settings/statuses/:id in the context of tenant t and clinic c.
updateStatus(t, c, id, is_default, is_active) ==
    LET status == statuses[id]
        cleared == IF is_default = Some(TRUE) /\ ~status.is_default
                   THEN UnsetDefaults(statuses, t, c, id) ELSE statuses
        saved == [status EXCEPT
                     !.is_default = IF is_default = Absent THEN @ ELSE Get(is_default),
                     !.is_active = IF is_active = Absent THEN @ ELSE Get(is_active)]
    IN IF ~FindStatus(statuses, t, c, id)
       THEN StatusReply(404, "Appointment status not found", statuses)
       ELSE StatusReply(200, "", [cleared EXCEPT ![id] = saved])

\* DELETE /api/settings/statuses/:id in the context of tenant t and clinic c.
deleteStatus(t, c, id) ==
    IF ~FindStatus(statuses, t, c, id)
    THEN StatusReply(404, "Appointment status not found", statuses)
    ELSE IF statuses[id].is_default \/ statuses[id].code = "scheduled"
    THEN StatusReply(400,
                     IF statuses[id].code = "scheduled"
                     THEN "Cannot delete the Scheduled status as it is a required default status"
                     ELSE "Cannot delete default status",
                     statuses)
    ELSE StatusReply(200, "", [statuses EXCEPT ![id].is_active = FALSE])

\* bulkWrite of batchUpdate: one updateOne per element of updates, in order, each
\* on the status its filter {_id, tenant_id, clinic_id} matches.
RECURSIVE BulkWrite(_, _, _, _)
BulkWrite(sts, t, c, updates) ==
    IF updates = <<>> THEN sts
    ELSE LET update == Head(updates)
             applied == IF FindStatus(sts, t, c, update.id) /\ update.is_active # Absent
                        THEN [sts EXCEPT ![update.id].is_active = Get(update.is_active)]
                        ELSE sts
         IN BulkWrite(applied, t, c, Tail(updates))

\* PUT /api/settings/statuses/batch in the context of tenant t and clinic c.
batchUpdate(t, c, updates) ==
    IF Len(updates) = 0
    THEN StatusReply(400, "Updates array is required", statuses)
    ELSE StatusReply(200, "", BulkWrite(statuses, t, c, updates))

\* A status handler's reply takes effect.
StatusCommit(r) ==
    /\ Len(r.statuses) <= MaxStatuses
    /\ statuses' = r.statuses
    /\ UNCHANGED <<clinics, userClinics, warehouses, item, reminderSent, delivered, pc, loc>>

\* The request inputs the status handlers are tried with: the contexts (tenant,
\* clinic) of two clinics of tenant 1, three codes, and batches of one or two updates.
StatusContexts == {<<1, 1>>, <<1, 2>>}

StatusCodeInputs == {"scheduled", "Scheduled", "completed"}

StatusFlagInputs == {Absent, Some(TRUE), Some(FALSE)}

StatusIdInputs == 1..MaxStatuses

StatusBatchInputs ==
    LET one == [id : StatusIdInputs, is_active : StatusFlagInputs]
    IN {<<>>} \cup {<<u>> : u \in one}
           \cup {<<u, v>> : u \in one, v \in [id : StatusIdInputs, is_active : {Some(FALSE)}]}

StatusNext ==
    \/ \E x \in StatusContexts, code \in StatusCodeInputs, is_default \in StatusFlagInputs :
          StatusCommit(createStatus(x[1], x[2], code, is_default))
    \/ \E x \in StatusContexts, id \in StatusIdInputs,
           is_default \in StatusFlagInputs, is_active \in StatusFlagInputs :
          StatusCommit(updateStatus(x[1], x[2], id, is_default, is_active))
    \/ \E x \in StatusContexts, id \in StatusIdInputs :
          StatusCommit(deleteStatus(x[1], x[2], id))
    \/ \E x \in StatusContexts, updates \in StatusBatchInputs :
          StatusCommit(batchUpdate(x[1], x[2], updates))

\* The appointment status handlers, one request at a time, from an empty collection.
SpecStatus == Init /\ [][StatusNext]_vars

\* ------------------------------------ appointment reminder job, await by await
\* startAppointmentReminderJob runs the job once and then on every tick of
\* setInterval, which does not wait for the run before: Requests are the runs that
\* may be under way at once.  Each awaited call of a run is one step.
MaxRuns == 2

InitReminder ==
    /\ clinics = StockClinics
    /\ userClinics = StockUserClinics
    /\ warehouses = <<>>
    /\ item = NoItem
    /\ statuses = <<>>
    /\ reminderSent = {}
    /\ delivered = NoDeliveries
    /\ pc = [r \in Requests |-> "idle"]
    /\ loc = [r \in Requests |-> [runs |-> 0, window |-> 0, appointments |-> <<>>, k |-> 0]]

\* Appointment.find({clinic_id: {$in: clinicIds}, appointment_date: {$gte: rangeStart,
\* $lte: rangeEnd}, status: {$in: [...]}}) for window w: the appointments due, in order.
AppointmentFind(w) ==
    LET due(id) == ReminderAppointments[id].due = w
    IN SelectSeq([id \in 1..Len(ReminderAppointments) |-> id], due)

\* The marker key of the appointment run r is at.
ReminderKey(r) ==
    [appointment_id |-> loc[r].appointments[loc[r].k],
     window_key |-> windowKey(ReminderWindows[loc[r].window].days,
                              ReminderWindows[loc[r].window].hours)]

\* sendNotification('appointment_reminder', clinicId, ...): the whatsapp field of its
\* result, Absent when it returns before sending.  gatewayOk: sendWawpWhatsApp succeeds.
sendNotification(clinicId, gatewayOk) ==
    LET settings == ReminderSettings[clinicId]
    IN IF ~settings.exists THEN Absent
       ELSE IF ~settings.template THEN Absent
       ELSE IF ~settings.hasWawp THEN Some(FALSE)
       ELSE Some(gatewayOk)

\* The loops of the job move on: to the next appointment of the window, else to the
\* find of the next window, else the run is over.
ReminderAdvance(r) ==
    IF loc[r].k < Len(loc[r].appointments)
    THEN /\ pc' = [pc EXCEPT ![r] = "alreadySent"]
         /\ loc' = [loc EXCEPT ![r].k = @ + 1]
    ELSE IF loc[r].window < Len(ReminderWindows)
    THEN /\ pc' = [pc EXCEPT ![r] = "find"]
         /\ loc' = [loc EXCEPT ![r].window = @ + 1, ![r].appointments = <<>>, ![r].k = 0]
    ELSE /\ pc' = [pc EXCEPT ![r] = "idle"]
         /\ loc' = [loc EXCEPT ![r].window = 0, ![r].appointments = <<>>, ![r].k = 0]

\* A tick of the interval (or the start): a run begins with the first window.
runAppointmentReminderJob_start(r) ==
    /\ pc[r] = "idle"
    /\ loc[r].runs < MaxRuns
    /\ pc' = [pc EXCEPT ![r] = "find"]
    /\ loc' = [loc EXCEPT ![r].runs = @ + 1, ![r].window = 1]
    /\ UNCHANGED <<clinics, userClinics, warehouses, item, statuses, reminderSent, delivered>>

\* await Appointment.find(...) for the window the run is at.
runAppointmentReminderJob_find(r) ==
    /\ pc[r] = "find"
    /\ IF AppointmentFind(loc[r].window) = <<>>
       THEN ReminderAdvance(r)
       ELSE /\ pc' = [pc EXCEPT ![r] = "alreadySent"]
            /\ loc' = [loc EXCEPT ![r].appointments = AppointmentFind(loc[r].window),
                                  ![r].k = 1]
    /\ UNCHANGED <<clinics, userClinics, warehouses, item, statuses, reminderSent, delivered>>

\* await AppointmentReminderSent.findOne({appointment_id, window_key}); the run goes
\* on to the next appointment when the marker is there or the patient has no phone.
runAppointmentReminderJob_alreadySent(r) ==
    /\ pc[r] = "alreadySent"
    /\ IF ReminderKey(r) \in reminderSent
       THEN ReminderAdvance(r)
       ELSE IF ~ReminderAppointments[ReminderKey(r).appointment_id].phone
       THEN ReminderAdvance(r)
       ELSE /\ pc' = [pc EXCEPT ![r] = "send"]
            /\ UNCHANGED loc
    /\ UNCHANGED <<clinics, userClinics, warehouses, item, statuses, reminderSent, delivered>>

\* await Clinic.findById(clinicId); await sendNotification(...): the result is dropped.
runAppointmentReminderJob_send(r, gatewayOk) ==
    /\ pc[r] = "send"
    /\ delivered' =
           IF sendNotification(ReminderAppointments[ReminderKey(r).appointment_id].clinic_id,
                               gatewayOk) = Some(TRUE)
           THEN [delivered EXCEPT ![ReminderKey(r)] = @ + 1]
           ELSE delivered
    /\ pc' = [pc EXCEPT ![r] = "record"]
    /\ UNCHANGED <<clinics, userClinics, warehouses, item, statuses, reminderSent, loc>>

\* await AppointmentReminderSent.create({...}).catch(...): the marker is inserted
\* unless the insert fails (dbFails, or the unique index when the key is there), and
\* a failure is logged and dropped.
runAppointmentReminderJob_record(r, dbFails) ==
    /\ pc[r] = "record"
    /\ reminderSent' = IF dbFails THEN reminderSent ELSE reminderSent \cup {ReminderKey(r)}
    /\ ReminderAdvance(r)
    /\ UNCHANGED <<clinics, userClinics, warehouses, item, statuses, delivered>>

ReminderNext ==
    \E r \in Requests :
        \/ runAppointmentReminderJob_start(r)
        \/ runAppointmentReminderJob_find(r)
        \/ runAppointmentReminderJob_alreadySent(r)
        \/ \E gatewayOk \in BOOLEAN : runAppointmentReminderJob_send(r, gatewayOk)
        \/ \E dbFails \in BOOLEAN : runAppointmentReminderJob_record(r, dbFails)

\* The reminder job: up to MaxRuns runs started in each of two overlapping slots.
SpecReminder == InitReminder /\ [][ReminderNext]_vars

\* --------------------------------------------- updateStock, await by await
\* Two stock-update requests on the one item in flight.  A request reads the
\* document, works on its copy and saves it: save() sends the paths the copy has
\* modified, current_stock as a $set of the copy's figure, a changed entry as a $set
\* of the copy's array guarded by the document version, a pushed entry as a $push.
RaceItem ==
    [exists |-> TRUE, tenant_id |-> 1, clinic_id |-> 1, assignedBranches |-> <<1>>,
     current_stock |-> MaxQty, branchWarehouses |-> <<Pair(1, 3)>>,
     stockByBranchWarehouse |-> <<[branchId |-> 1, warehouseId |-> 3, stock |-> MaxQty]>>,
     version |-> 0]

\* What save() sends for the change updateStock makes to the copy `it`.
ModifiedPath(it, ws, branchId, warehouseId) ==
    IF branchId = NullId \/ warehouseId = NullId THEN "current_stock"
    ELSE IF ~WarehouseById(ws, warehouseId) THEN "current_stock"
    ELSE IF ws[warehouseId].isShared THEN "current_stock"
    ELSE IF StockEntryIndex(it.stockByBranchWarehouse, branchId, warehouseId) = 0
    THEN "$push"
    ELSE "stockByBranchWarehouse"

StockRequest(quantity, operation, branchId, warehouseId) ==
    [quantity |-> quantity, operation |-> operation, branchId |-> branchId,
     warehouseId |-> warehouseId, doc |-> NoItem, modified |-> "", status |-> 0]

StockRequests ==
    {StockRequest(q, op, b, w) :
        q \in 1..MaxQty, op \in OperationInputs, b \in {NullId, 1, 2}, w \in {NullId, 3, 4}}

InitStockRace ==
    /\ clinics = StockClinics
    /\ userClinics = StockUserClinics
    /\ warehouses = StockWarehouses
    /\ item = RaceItem
    /\ statuses = <<>>
    /\ reminderSent = {}
    /\ delivered = NoDeliveries
    /\ pc = [r \in Requests |-> "findOne"]
    /\ loc \in [Requests -> StockRequests]

\* Request r moves to `next` with its locals updated; the item stays.
StockLocalStep(r, next, locals) ==
    /\ pc' = [pc EXCEPT ![r] = next]
    /\ loc' = [loc EXCEPT ![r] = locals]
    /\ UNCHANGED <<clinics, userClinics, warehouses, item, statuses, reminderSent, delivered>>

\* const inventoryItem = await Inventory.findOne(...)
updateStock_findOne(r) ==
    /\ pc[r] = "findOne"
    /\ StockLocalStep(r, "preCheck", [loc[r] EXCEPT !.doc = item])

\* The subtract pre-check on the copy.
updateStock_preCheck(r) ==
    LET refusal == PreCheck(loc[r].doc, warehouses, loc[r].quantity, loc[r].operation,
                            loc[r].branchId, loc[r].warehouseId)
    IN /\ pc[r] = "preCheck"
       /\ IF refusal.status # 0
          THEN StockLocalStep(r, "done", [loc[r] EXCEPT !.status = refusal.status])
          ELSE StockLocalStep(r, "mutate", loc[r])

\* inventoryItem.updateStock(...) up to its save(): the copy is changed.
updateStock_mutate(r) ==
    /\ pc[r] = "mutate"
    /\ StockLocalStep(r, "save",
                      [loc[r] EXCEPT
                          !.doc = MutateStock(@, warehouses, loc[r].quantity, loc[r].operation,
                                              loc[r].branchId, loc[r].warehouseId),
                          !.modified = ModifiedPath(loc[r].doc, warehouses, loc[r].branchId,
                                                    loc[r].warehouseId)])

\* What the stored document becomes when save() of the copy `doc` goes through.
SaveModified(stored, doc, modified) ==
    IF modified = "current_stock"
    THEN [stored EXCEPT !.current_stock = doc.current_stock]
    ELSE IF modified = "$push"
    THEN [stored EXCEPT
             !.stockByBranchWarehouse =
                 Append(@, doc.stockByBranchWarehouse[Len(doc.stockByBranchWarehouse)]),
             !.version = @ + 1]
    ELSE [stored EXCEPT !.stockByBranchWarehouse = doc.stockByBranchWarehouse,
                        !.version = @ + 1]

\* return this.save(): validation, then the update; a $set of the array fails with a
\* VersionError when the stored version is no longer the copy's.
updateStock_save(r) ==
    LET doc == loc[r].doc
        versionError == loc[r].modified = "stockByBranchWarehouse" /\ item.version # doc.version
    IN /\ pc[r] = "save"
       /\ pc' = [pc EXCEPT ![r] = "done"]
       /\ UNCHANGED <<clinics, userClinics, warehouses, statuses, reminderSent, delivered>>
       /\ IF ~ItemValid(doc) \/ versionError
          THEN /\ loc' = [loc EXCEPT ![r].status = 500]
               /\ UNCHANGED item
          ELSE /\ loc' = [loc EXCEPT ![r].status = 200]
               /\ item' = SaveModified(item, doc, loc[r].modified)

StockRaceNext ==
    \/ \E r \in Requests : updateStock_findOne(r)
    \/ \E r \in Requests : updateStock_preCheck(r)
    \/ \E r \in Requests : updateStock_mutate(r)
    \/ \E r \in Requests : updateStock_save(r)

\* Two stock updates of one item interleaving at their awaits.
SpecStockRace == InitStockRace /\ [][StockRaceNext]_vars

Next ==
    \/ ClinicNext
    \/ WarehouseNext
    \/ StockNext
    \/ AssignmentNext

Spec == Init /\ [][Next]_vars

\* ------------------------------------------------------------- properties
TenantClinics(t) == {i \in ClinicIds : clinics[i].tenant_id = t}

MainClinics(t) == {i \in TenantClinics(t) : clinics[i].is_main_clinic}

\* The non-deleted MAIN warehouses of tenant t that list branch b.
MainWarehousesOf(t, b) ==
    {i \in 1..Len(warehouses) :
        /\ warehouses[i].tenant_id = t
        /\ warehouses[i].type = "MAIN"
        /\ ~warehouses[i].deleted_at
        /\ b \in Range(warehouses[i].assignedBranches)}

\* C1: with the warehouse handlers and branch provisioning running one at a time,
\* every (tenant, branch) has at most one warehouse with type MAIN, deleted_at null
\* and the branch in assignedBranches.
AtMostOneMainWarehousePerBranch ==
    \A t \in Tenants, b \in BranchIdInputs : Cardinality(MainWarehousesOf(t, b)) <= 1

\* C1 happens: a branch whose MAIN warehouse was soft-deleted has been given another.
MainWarehouseReplaced ==
    \E b \in ClinicIds, i \in 1..Len(warehouses) :
        /\ warehouses[i].type = "MAIN"
        /\ warehouses[i].deleted_at
        /\ b \in Range(warehouses[i].assignedBranches)
        /\ MainWarehousesOf(clinics[b].tenant_id, b) # {}

CreateClinicDecision ==
    \A u \in Users, body \in ClinicCreateBodies, whFails \in BOOLEAN :
        LET t == TenantOf(u)
            r == createClinic(u, body, whFails)
            memberOf(c) == \E m \in userClinics :
                              m.user_id = u /\ m.clinic_id = c /\ m.is_active
            inMain == \E c \in MainClinics(t) : memberOf(c)
            inSub == \E c \in ClinicIds : ~clinics[c].is_main_clinic /\ memberOf(c)
            inNone == ~\E c \in ClinicIds : memberOf(c)
            created == /\ r.status = 201
                       /\ Len(r.clinics) = Len(clinics) + 1
                       /\ SubSeq(r.clinics, 1, Len(clinics)) = clinics
            new == r.clinics[Len(r.clinics)]
            subUnderMain == /\ created
                            /\ new.tenant_id = t
                            /\ ~new.is_main_clinic
                            /\ new.parent_clinic_id \in MainClinics(t)
        IN /\ TenantClinics(t) = {} =>
                /\ created
                /\ new.tenant_id = t
                /\ new.is_main_clinic
                /\ new.parent_clinic_id = NullId
           /\ (MainClinics(t) # {} /\ inMain) => subUnderMain
           /\ (MainClinics(t) # {} /\ ~inMain /\ inSub) =>
                /\ r.status = 403
                /\ r.clinics = clinics
                /\ r.userClinics = userClinics
                /\ r.warehouses = warehouses
           /\ (MainClinics(t) # {} /\ inNone) => subUnderMain

\* C10 happens: a requester without membership was given a Sub Clinic, which makes
\* that requester a member of a Sub Clinic only, while another is in the Main Clinic.
SubOnlyMemberExists ==
    \E u \in Users, v \in Users :
        /\ MainClinics(TenantOf(u)) # {}
        /\ \E m \in userClinics :
              m.user_id = u /\ m.is_active /\ ~clinics[m.clinic_id].is_main_clinic
        /\ ~\E m \in userClinics :
              m.user_id = u /\ m.is_active /\ clinics[m.clinic_id].is_main_clinic
        /\ \E m \in userClinics :
              m.user_id = v /\ m.is_active /\ clinics[m.clinic_id].is_main_clinic

\* C3: an item created with current_stock >= 0 never has a negative current_stock
\* or a negative stockByBranchWarehouse entry, whatever add and subtract calls of
\* updateStock it has gone through, behind the controller's pre-check or not.
StockNeverNegative ==
    item.exists =>
        /\ item.current_stock >= 0
        /\ \A i \in 1..Len(item.stockByBranchWarehouse) :
               item.stockByBranchWarehouse[i].stock >= 0

\* C3 happens: of two entries seeded with the same stock one has been taken down
\* to zero.
EntryEmptied ==
    /\ item.exists
    /\ \E i, j \in 1..Len(item.stockByBranchWarehouse) :
          /\ item.stockByBranchWarehouse[i].stock = 0
          /\ item.stockByBranchWarehouse[j].stock > 0

\* C7: updateStock with a branch A and a non-shared warehouse W succeeds, leaves
\* current_stock as it was and every entry keyed otherwise as it was and where it
\* was, and adds at most the entry (A, W), for add and subtract, the entry being
\* there before or not.
UpdateStockFrame ==
    item.exists =>
        \A q \in QuantityInputs \ {0}, op \in OperationInputs, A \in {1, 2},
           W \in {w \in 1..Len(warehouses) : ~warehouses[w].isShared} :
            LET r == updateStock(item, warehouses, q, op, A, W)
                old == item.stockByBranchWarehouse
                new == r.item.stockByBranchWarehouse
                keyed(e) == e.branchId = A /\ e.warehouseId = W
                existed == \E i \in 1..Len(old) : keyed(old[i])
            IN /\ r.ok
               /\ r.item.current_stock = item.current_stock
               /\ Len(new) = IF existed THEN Len(old) ELSE Len(old) + 1
               /\ \A i \in 1..Len(old) : ~keyed(old[i]) => new[i] = old[i]
               /\ \A i \in 1..Len(new) : i > Len(old) => keyed(new[i])

\* C7 happens: the entries of two branches in one non-shared warehouse, seeded or
\* created by updateStock, have come to hold different stocks.
BranchEntriesDiverged ==
    /\ item.exists
    /\ \E i, j \in 1..Len(item.stockByBranchWarehouse) :
          /\ item.stockByBranchWarehouse[i].warehouseId = item.stockByBranchWarehouse[j].warehouseId
          /\ item.stockByBranchWarehouse[i].branchId # item.stockByBranchWarehouse[j].branchId
          /\ item.stockByBranchWarehouse[i].stock # item.stockByBranchWarehouse[j].stock

RaceKeepsOneMainClinic ==
    \A t \in Tenants :
        \A i, j \in TenantClinics(t) :
            (/\ clinics[i].is_main_clinic /\ clinics[i].is_active
             /\ clinics[j].is_main_clinic /\ clinics[j].is_active) => i = j

\* C4: of two concurrent requests that each would give one branch a MAIN warehouse,
\* once both are over exactly one has stored its warehouse and the other has been
\* turned away by the duplicate-MAIN check, and the branch has one MAIN warehouse.
RaceStoresOneMainWarehouse ==
    (\A r \in Requests : pc[r] = "done") =>
        /\ \E r \in Requests :
              /\ loc[r].stored
              /\ \A o \in Requests \ {r} : ~loc[o].stored
        /\ Cardinality(MainWarehousesOf(RaceTenant, RaceBranch)) = 1

\* The stock figures of the item after the accepted ones of the two requests have
\* been applied to `it` one after the other, `first` first.
AppliedInOrder(it, first, second) ==
    LET apply(d, r) ==
            IF loc[r].status = 200
            THEN updateStock(d, warehouses, loc[r].quantity, loc[r].operation,
                             loc[r].branchId, loc[r].warehouseId).item
            ELSE d
    IN apply(apply(it, first), second)

\* C6: once two concurrent stock updates of one item are over, the stored
\* current_stock and stockByBranchWarehouse are what applying the accepted ones
\* one after the other, in one of the two orders, gives.
RaceAppliesBothUpdates ==
    (\A r \in Requests : pc[r] = "done") =>
        \E first \in Requests :
            \A second \in Requests \ {first} :
                LET serial == AppliedInOrder(RaceItem, first, second)
                IN /\ item.current_stock = serial.current_stock
                   /\ item.stockByBranchWarehouse = serial.stockByBranchWarehouse

\* What a reply leaves of the collections: TRUE when nothing was written.
Untouched(r) ==
    /\ r.clinics = clinics
    /\ r.userClinics = userClinics
    /\ r.warehouses = warehouses

\* Every Main Clinic is active.
MainClinicsActive ==
    \A i \in ClinicIds : clinics[i].is_main_clinic => clinics[i].is_active

\* updateClinic with is_active = false and deactivateClinic on a Main Clinic are
\* refused and write nothing, whoever asks and whatever other clinics there are.
MainClinicStatusChangesRejected ==
    \A u \in Users, role \in UserRoles, i \in ClinicIds :
        clinics[i].is_main_clinic =>
            /\ \A body \in ClinicUpdateBodies :
                   body.is_active = Some(FALSE) =>
                       /\ updateClinic(u, role, i, body).status # 200
                       /\ Untouched(updateClinic(u, role, i, body))
            /\ deactivateClinic(u, role, i).status # 200
            /\ Untouched(deactivateClinic(u, role, i))

\* C11: in every reachable state every clinic with is_main_clinic = true has
\* is_active = true, and updateClinic with is_active = false and deactivateClinic on
\* a Main Clinic are refused and leave the clinic and the memberships as they were.
MainClinicNeverDeactivated ==
    /\ MainClinicsActive
    /\ MainClinicStatusChangesRejected

\* C18: when warehouse provisioning fails inside an accepted createClinic, the
\* clinic and the creator's membership are stored as they are when it succeeds, no
\* warehouse is left behind, and the answer is still 201.
ProvisioningFailureSwallowed ==
    \A u \in Users, body \in ClinicCreateBodies :
        LET provisioned == createClinic(u, body, FALSE)
            r == createClinic(u, body, TRUE)
        IN provisioned.status = 201 =>
               /\ r.status = 201
               /\ r.clinics = provisioned.clinics
               /\ Len(r.clinics) = Len(clinics) + 1
               /\ r.userClinics = provisioned.userClinics
               /\ [user_id |-> u, clinic_id |-> Len(r.clinics), is_active |-> TRUE]
                      \in r.userClinics
               /\ r.warehouses = warehouses

\* C18 happens: a clinic is stored with its creator's membership and no warehouse
\* lists it as a branch.
ClinicLeftWithoutWarehouse ==
    \E c \in ClinicIds :
        /\ \E m \in userClinics : m.clinic_id = c
        /\ \A i \in 1..Len(warehouses) : c \notin Range(warehouses[i].assignedBranches)

\* Two replies are the same outcome for the caller.
SameOutcome(a, b) == a.status = b.status /\ a.error = b.error /\ a.detail = b.detail

\* updateClinic and deactivateClinic answer the id of another tenant's clinic as
\* they answer an id that does not exist, and write nothing.
CrossTenantClinicAsMissing ==
    \A u \in Users, role \in UserRoles, id \in ClinicIds :
        LET noClinic == Len(clinics) + 1
        IN clinics[id].tenant_id # TenantOf(u) =>
               /\ \A body \in ClinicUpdateBodies :
                      /\ SameOutcome(updateClinic(u, role, id, body),
                                     updateClinic(u, role, noClinic, body))
                      /\ Untouched(updateClinic(u, role, id, body))
               /\ SameOutcome(deactivateClinic(u, role, id),
                              deactivateClinic(u, role, noClinic))
               /\ Untouched(deactivateClinic(u, role, id))

\* The warehouse handlers answer the id of another tenant's warehouse as they answer
\* an id that does not exist, and write nothing.
CrossTenantWarehouseAsMissing ==
    \A t \in Tenants, id \in 1..Len(warehouses) :
        LET noWarehouse == Len(warehouses) + 1
        IN warehouses[id].tenant_id # t =>
               /\ SameOutcome(getWarehouseById(t, id), getWarehouseById(t, noWarehouse))
               /\ \A body \in WarehouseUpdateBodies :
                      /\ SameOutcome(updateWarehouse(t, id, body),
                                     updateWarehouse(t, noWarehouse, body))
                      /\ Untouched(updateWarehouse(t, id, body))
               /\ \A status \in {"ACTIVE", "INACTIVE"} :
                      /\ SameOutcome(updateWarehouseStatus(t, id, status),
                                     updateWarehouseStatus(t, noWarehouse, status))
                      /\ Untouched(updateWarehouseStatus(t, id, status))
               /\ SameOutcome(deleteWarehouse(t, id), deleteWarehouse(t, noWarehouse))
               /\ Untouched(deleteWarehouse(t, id))

\* C19: a request in one tenant's context with the id of a clinic or warehouse of
\* another tenant is answered as the same request with an id that does not exist,
\* and writes nothing, for updateClinic, deactivateClinic, getWarehouseById,
\* updateWarehouse, updateWarehouseStatus and deleteWarehouse.
CrossTenantAsMissing ==
    /\ CrossTenantClinicAsMissing
    /\ CrossTenantWarehouseAsMissing

ClinicAndWarehouseAtomic ==
    \A c \in ClinicIds : MainWarehousesOf(clinics[c].tenant_id, c) # {}

\* C12: createWarehouse answers 400, creates no warehouse and changes none when a
\* requested branch is no clinic of the caller's tenant, when assignedBranches has a
\* duplicate, or when type is MAIN and a requested branch has a non-deleted MAIN
\* warehouse; in the last case, the branches being the tenant's and distinct, the
\* error names a branch that has one.
CreateWarehouseRejections ==
    \A t \in Tenants, type \in {"MAIN", "SUB"}, l \in BranchListInputs \ {<<>>} :
        LET r == createWarehouse(t, type, l, Absent, FALSE)
            foreign == \E b \in Range(l) : ~(b \in ClinicIds /\ clinics[b].tenant_id = t)
            duplicate == \E i, j \in 1..Len(l) : i # j /\ l[i] = l[j]
            taken == {b \in Range(l) : MainWarehousesOf(t, b) # {}}
        IN /\ (foreign \/ duplicate \/ (type = "MAIN" /\ taken # {})) =>
                  /\ r.status = 400
                  /\ Untouched(r)
           /\ (~foreign /\ ~duplicate /\ type = "MAIN" /\ taken # {}) =>
                  /\ r.error = "Branch already has a MAIN warehouse"
                  /\ r.detail \in taken

\* C12 happens: of two branches one has a MAIN warehouse and the other has none,
\* and a SUB warehouse has been created for a branch.
SubWarehouseBesideMain ==
    /\ \E b, c \in ClinicIds :
          /\ clinics[b].tenant_id = clinics[c].tenant_id
          /\ MainWarehousesOf(clinics[b].tenant_id, b) # {}
          /\ MainWarehousesOf(clinics[c].tenant_id, c) = {}
    /\ \E i \in 1..Len(warehouses) : warehouses[i].type = "SUB" /\ ~warehouses[i].deleted_at

\* The item references warehouse id in branchWarehouses or stockByBranchWarehouse.
References(it, id) ==
    /\ it.exists
    /\ \/ \E i \in 1..Len(it.branchWarehouses) : it.branchWarehouses[i].warehouseId = id
       \/ \E i \in 1..Len(it.stockByBranchWarehouse) :
              it.stockByBranchWarehouse[i].warehouseId = id

\* C13: deleteWarehouse of a warehouse of the caller's tenant that is not deleted is
\* refused, the warehouse staying as it is, exactly when an item of the tenant
\* references it in branchWarehouses or stockByBranchWarehouse; otherwise the
\* warehouse stays in the collection with deleted_at set and status INACTIVE, and
\* no other warehouse changes.
DeleteWarehouseGuarded ==
    \A t \in Tenants, id \in 1..Len(warehouses) :
        LET r == deleteWarehouse(t, id)
        IN (warehouses[id].tenant_id = t /\ ~warehouses[id].deleted_at) =>
               IF References(item, id) /\ item.tenant_id = t
               THEN r.status = 400 /\ Untouched(r)
               ELSE /\ r.status = 200
                    /\ Len(r.warehouses) = Len(warehouses)
                    /\ r.warehouses[id] =
                           [warehouses[id] EXCEPT !.deleted_at = TRUE, !.status = "INACTIVE"]
                    /\ \A i \in 1..Len(warehouses) : i # id => r.warehouses[i] = warehouses[i]

\* C13 happens: one warehouse has been deleted while the item holds stock in the
\* other, which it references in stockByBranchWarehouse only.
DeletedBesideStockedWarehouse ==
    /\ \E i \in 1..Len(warehouses) : warehouses[i].deleted_at
    /\ \E j \in 1..Len(warehouses) :
          /\ ~warehouses[j].deleted_at
          /\ References(item, j)
          /\ \A k \in 1..Len(item.branchWarehouses) : item.branchWarehouses[k].warehouseId # j

\* C14: no createInventoryItem, updateInventoryItem or stock update gives the item
\* a reference, in branchWarehouses or stockByBranchWarehouse, to a warehouse whose
\* deleted_at is set.
NoAssignmentToDeletedWarehouse ==
    [][\A id \in 1..Len(warehouses) :
           (warehouses[id].deleted_at /\ ~References(item, id)) => ~References(item', id)]_vars

\* C15: createInventoryItem with initial stock s stores an item whose current_stock
\* is s and whose stockByBranchWarehouse has, for each distinct pair of its
\* branchWarehouses whose warehouse is non-shared, exactly one entry, with stock s,
\* no entry for a pair whose warehouse is shared, and no entry for any other pair.
SeedsFullStockPerPair ==
    \A t \in Tenants, c \in {1, 2}, s \in 0..MaxStock, m \in ItemMappingInputs :
        LET r == createInventoryItem(t, c, s, m.assignedBranches, m.branchWarehouses)
            mapping == r.item.branchWarehouses
            entries == r.item.stockByBranchWarehouse
            of(bw) == {i \in 1..Len(entries) :
                          /\ entries[i].branchId = bw.branchId
                          /\ entries[i].warehouseId = bw.warehouseId}
        IN /\ r.status = 201
           /\ r.item.current_stock = s
           /\ \A k \in 1..Len(mapping) :
                  IF warehouses[mapping[k].warehouseId].isShared
                  THEN of(mapping[k]) = {}
                  ELSE /\ Cardinality(of(mapping[k])) = 1
                       /\ \A i \in of(mapping[k]) : entries[i].stock = s
           /\ \A i \in 1..Len(entries) :
                  \E k \in 1..Len(mapping) : i \in of(mapping[k])

\* C15 happens: an item created with a positive stock holds that stock in full in the
\* entries of two branches of one warehouse.
BothBranchesSeededInFull ==
    /\ item.exists
    /\ item.current_stock > 0
    /\ \E i, j \in 1..Len(item.stockByBranchWarehouse) :
          /\ item.stockByBranchWarehouse[i].warehouseId = item.stockByBranchWarehouse[j].warehouseId
          /\ item.stockByBranchWarehouse[i].branchId # item.stockByBranchWarehouse[j].branchId
          /\ item.stockByBranchWarehouse[i].stock = item.current_stock
          /\ item.stockByBranchWarehouse[j].stock = item.current_stock

\* C16: a branch that has a non-deleted MAIN warehouse has one after every warehouse
\* operation.
MainWarehouseNeverLost ==
    [][\A t \in Tenants, b \in BranchIdInputs :
           MainWarehousesOf(t, b) # {} => MainWarehousesOf(t, b)' # {}]_vars

\* The tenant's only active clinic: its active Main Clinic, every other clinic of the
\* tenant being inactive.
OnlyActiveClinicIsMain(i) ==
    /\ clinics[i].is_main_clinic
    /\ clinics[i].is_active
    /\ \A j \in ClinicIds :
           (j # i /\ clinics[j].tenant_id = clinics[i].tenant_id) => ~clinics[j].is_active

\* C21: for a tenant whose only active clinic is its Main Clinic, updateClinic with
\* is_active = false and deactivateClinic on it are both refused and write nothing;
\* a requester who passes the access check of the handler gets 400 with the "cannot
\* disable Main Clinic" error from updateClinic and 400 with the "cannot delete, it
\* is the only clinic" error from deactivateClinic, and the two errors differ.
MainClinicRejectionsDistinct ==
    \A u \in Users, role \in UserRoles, i \in ClinicIds :
        OnlyActiveClinicIsMain(i) =>
            /\ \A body \in ClinicUpdateBodies :
                   body.is_active = Some(FALSE) =>
                       LET r == updateClinic(u, role, i, body)
                       IN /\ Untouched(r)
                          /\ r.status \in {400, 403}
                          /\ r.status = 400 =>
                                 /\ r.error = "Cannot disable Main Clinic."
                                 /\ r.error # deactivateClinic(u, "admin", i).error
            /\ LET d == deactivateClinic(u, role, i)
               IN /\ Untouched(d)
                  /\ d.status \in {400, 403}
                  /\ d.status = 400 =>
                         d.error = "Cannot delete Main Clinic. It is the only clinic in the organization."

\* C21 happens: a tenant's Main Clinic is active and is its only active clinic
\* while the tenant has a Sub Clinic, deactivated.
MainAloneAmongDeactivated ==
    \E i, j \in ClinicIds :
        /\ OnlyActiveClinicIsMain(i)
        /\ j # i
        /\ clinics[j].tenant_id = clinics[i].tenant_id
        /\ HasActiveMembership(userClinics, 1, i)

\* C24: an updateWarehouse whose resulting warehouse has type MAIN, whether the type,
\* the branches or both are what the request changes, is refused with 400 and an
\* error naming the offending branch, nothing being written, when a branch of the
\* resulting warehouse has another non-deleted MAIN warehouse.
UpdateWarehouseMainRecheck ==
    \A t \in Tenants, id \in 1..Len(warehouses), body \in WarehouseUpdateBodies :
        LET r == updateWarehouse(t, id, body)
            sent == body.assignedBranches # Absent /\ Len(Get(body.assignedBranches)) > 0
            resultingBranches == IF sent THEN Get(body.assignedBranches)
                                 ELSE warehouses[id].assignedBranches
            resultingType == IF body.type = Absent THEN warehouses[id].type ELSE Get(body.type)
            wellFormed == /\ \A b \in Range(resultingBranches) :
                                b \in ClinicIds /\ clinics[b].tenant_id = t
                          /\ \A i, j \in 1..Len(resultingBranches) :
                                i # j => resultingBranches[i] # resultingBranches[j]
            taken == {b \in Range(resultingBranches) : MainWarehouseExists(warehouses, t, b, id)}
        IN (/\ FindWarehouse(warehouses, t, id)
            /\ wellFormed
            /\ resultingType = "MAIN"
            /\ taken # {}) =>
               /\ r.status = 400
               /\ r.error = "Branch already has a MAIN warehouse"
               /\ r.detail \in taken
               /\ Untouched(r)

\* The stock figure of the scope a stock update resolves to: the (branch, warehouse)
\* entry for a non-shared warehouse, current_stock otherwise; -1 when the scope is an
\* entry the item does not have.
ScopeStock(it, ws, branchId, warehouseId) ==
    LET k == StockEntryIndex(it.stockByBranchWarehouse, branchId, warehouseId)
    IN IF /\ branchId # NullId /\ warehouseId # NullId
          /\ WarehouseById(ws, warehouseId)
          /\ ~ws[warehouseId].isShared
       THEN IF k # 0 THEN it.stockByBranchWarehouse[k].stock ELSE 0 - 1
       ELSE it.current_stock

\* C23: every subtract that the stock-update boundary accepts leaves the resolved
\* scope with the available quantity of the pre-check less the requested quantity,
\* so the ledger's floor at zero takes nothing away from the result.
SubtractAppliedInFull ==
    \A t \in Tenants, c \in {1, 2}, q \in 1..MaxQty,
       b \in StockBranchInputs, w \in StockWarehouseInputs :
        LET r == InventoryController_updateStock(item, warehouses, t, c, q, "subtract", b, w)
        IN r.status = 200 =>
               ScopeStock(r.item, warehouses, b, w) = AvailableStock(item, warehouses, b, w) - q

\* The ledger table: the document Inventory.updateStock is to leave stored.
LedgerTable(it, ws, q, op, b, w) ==
    LET entries == it.stockByBranchWarehouse
        perBranch == /\ b # NullId /\ w # NullId
                     /\ w \in 1..Len(ws)
                     /\ ~ws[w].isShared
        held == {i \in 1..Len(entries) : entries[i].branchId = b /\ entries[i].warehouseId = w}
        moved(stock) == IF op = "add" THEN stock + q
                        ELSE IF stock >= q THEN stock - q ELSE 0
        created == IF op = "add" THEN q
                   ELSE IF entries = <<>> /\ it.current_stock > 0 THEN moved(it.current_stock)
                   ELSE 0
    IN IF ~perBranch
       THEN [it EXCEPT !.current_stock = moved(it.current_stock)]
       ELSE IF held # {}
       THEN [it EXCEPT !.stockByBranchWarehouse =
                [i \in 1..Len(entries) |->
                    IF i = Min(held) THEN [entries[i] EXCEPT !.stock = moved(entries[i].stock)]
                    ELSE entries[i]]]
       ELSE [it EXCEPT !.stockByBranchWarehouse =
                entries \o <<[branchId |-> b, warehouseId |-> w, stock |-> created]>>]

\* C25: for every stored item, quantity q > 0, operation and branch and warehouse
\* arguments, Inventory.updateStock saves and leaves stored the document of the
\* ledger table: current_stock alone moves (add: + q, subtract: floored at 0) when
\* a branch or warehouse is missing, the warehouse is unknown or shared; for a
\* non-shared warehouse the pair's entry moves the same way, and a missing entry is
\* created with q on add, with max(0, current_stock - q) on a subtract from an item
\* without entries and a positive current_stock, and with 0 on any other subtract.
UpdateStockFollowsLedgerTable ==
    item.exists =>
        \A q \in 1..MaxQty, op \in OperationInputs,
           b \in StockBranchInputs, w \in StockWarehouseInputs :
            LET r == updateStock(item, warehouses, q, op, b, w)
            IN /\ r.ok
               /\ r.item = LedgerTable(item, warehouses, q, op, b, w)

\* C25 happens: an item without a mapping has had its first entry created by a
\* subtract, from current_stock as the baseline, and a second created at 0.
LedgerBridgedThenFloored ==
    /\ item.exists
    /\ item.branchWarehouses = <<>>
    /\ Len(item.stockByBranchWarehouse) = 2
    /\ item.stockByBranchWarehouse[1].stock = item.current_stock - 1
    /\ item.stockByBranchWarehouse[1].stock > 0
    /\ item.stockByBranchWarehouse[2].stock = 0

\* C26 as stated: createInventoryItem with assignedBranches and no branchWarehouses
\* stores a mapping that has, for each assigned branch with a non-deleted MAIN
\* warehouse in the tenant, the pair of the branch and that warehouse, and no other
\* pair.
MappingDerivedFromMainWarehouses ==
    \A t \in Tenants, c \in {1, 2}, l \in {<<1>>, <<2>>, <<1, 2>>} :
        LET r == createInventoryItem(t, c, 1, Some(l), Absent)
        IN /\ r.status = 201
           /\ Range(r.item.branchWarehouses) =
                  {bw \in {Pair(b, w) : b \in Range(l), w \in 1..Len(warehouses)} :
                      bw.warehouseId \in MainWarehousesOf(t, bw.branchId)}

\* C27: after createInventoryItem and any sequence of stock updates, no two entries
\* of the item's stockByBranchWarehouse have the same branch and warehouse, also
\* when the creation request repeated a pair in branchWarehouses.
StockEntriesUnique ==
    item.exists =>
        \A i, j \in 1..Len(item.stockByBranchWarehouse) :
            (/\ item.stockByBranchWarehouse[i].branchId = item.stockByBranchWarehouse[j].branchId
             /\ item.stockByBranchWarehouse[i].warehouseId =
                    item.stockByBranchWarehouse[j].warehouseId) => i = j

\* C27 happens: the item was created with a pair repeated in its mapping, holds one
\* entry for each distinct pair, and a stock update has moved the repeated pair's
\* entry away from the stock it was seeded with.
RepeatedPairSeededOnceThenMoved ==
    /\ item.exists
    /\ Len(item.stockByBranchWarehouse) = Cardinality(Range(item.branchWarehouses))
    /\ \E i, j \in 1..Len(item.branchWarehouses) :
          /\ i # j
          /\ item.branchWarehouses[i] = item.branchWarehouses[j]
          /\ \E k \in 1..Len(item.stockByBranchWarehouse) :
                 /\ item.stockByBranchWarehouse[k].branchId = item.branchWarehouses[i].branchId
                 /\ item.stockByBranchWarehouse[k].warehouseId =
                        item.branchWarehouses[i].warehouseId
                 /\ item.stockByBranchWarehouse[k].stock # item.current_stock

\* C29: after any sequence of createStatus, updateStatus, deleteStatus and
\* batchUpdate, every status with is_default = true or code 'scheduled' is active.
DefaultAndScheduledStayActive ==
    \A i \in 1..Len(statuses) :
        (statuses[i].is_default \/ statuses[i].code = "scheduled") => statuses[i].is_active

\* C22: over any number of runs of the reminder job, overlapping or not, the gateway
\* sends at most one reminder message for each (appointment, window_key).
AtMostOneReminderPerPair ==
    \A k \in MarkerKeys : delivered[k] <= 1

\* C30: a marker for (appointment, window_key) is in the collection only when the
\* gateway has sent the reminder for that pair.
MarkerOnlyWhenDelivered ==
    \A k \in reminderSent : delivered[k] >= 1

\* The events of type `type` among those a reply has emitted.
EventsOf(r, type) == {i \in 1..Len(r.events) : r.events[i] = type}

\* C28: a warehouse create, update, soft delete or status change that succeeds
\* emits exactly one event of its type, an update that changes assignedBranches
\* also emits warehouse.branchesAssigned, and a request that is refused or fails
\* emits nothing.
WarehouseEventsEmitted ==
    \A t \in Tenants, id \in WarehouseIdInputs :
        /\ \A type \in {"MAIN", "SUB"}, l \in BranchListInputs :
               LET r == createWarehouse(t, type, l, Absent, FALSE)
               IN IF r.status = 201
                  THEN Cardinality(EventsOf(r, "warehouse.created")) = 1
                  ELSE r.events = <<>>
        /\ \A body \in WarehouseUpdateBodies :
               LET r == updateWarehouse(t, id, body)
               IN IF r.status = 200
                  THEN /\ Cardinality(EventsOf(r, "warehouse.updated")) = 1
                       /\ r.warehouses[id].assignedBranches # warehouses[id].assignedBranches
                              => EventsOf(r, "warehouse.branchesAssigned") # {}
                  ELSE r.events = <<>>
        /\ \A status \in {"ACTIVE", "INACTIVE"} :
               LET r == updateWarehouseStatus(t, id, status)
               IN IF r.status = 200
                  THEN Cardinality(EventsOf(r, "warehouse.statusChanged")) = 1
                  ELSE r.events = <<>>
        /\ LET r == deleteWarehouse(t, id)
           IN IF r.status = 200
              THEN Cardinality(EventsOf(r, "warehouse.deleted")) = 1
              ELSE r.events = <<>>

\* C26, amended: createInventoryItem with assignedBranches and no branchWarehouses
\* stores a mapping that has, for each assigned branch with a non-deleted MAIN
\* warehouse of status ACTIVE in the tenant, the pair of the branch and such a
\* warehouse, and no other pair.
MappingDerivedFromActiveMainWarehouses ==
    \A t \in Tenants, c \in {1, 2}, l \in {<<1>>, <<2>>, <<1, 2>>} :
        LET r == createInventoryItem(t, c, 1, Some(l), Absent)
            mapping == Range(r.item.branchWarehouses)
            activeMain(b) == {w \in MainWarehousesOf(t, b) : warehouses[w].status = "ACTIVE"}
        IN /\ r.status = 201
           /\ \A bw \in mapping :
                  bw.branchId \in Range(l) /\ bw.warehouseId \in activeMain(bw.branchId)
           /\ \A b \in Range(l) :
                  activeMain(b) # {} =>
                      Cardinality({bw \in mapping : bw.branchId = b}) = 1

\* C26 happens: an item created for branches 1 and 2 holds the one pair derived for
\* branch 1 from its MAIN warehouse, seeded with the item's stock, and none for
\* branch 2, which has no MAIN warehouse.
MappingDerivedForOneBranch ==
    /\ item.exists
    /\ item.assignedBranches = <<1, 2>>
    /\ item.branchWarehouses = <<Pair(1, 1)>>
    /\ warehouses[1].type = "MAIN"
    /\ \E i \in 1..Len(item.stockByBranchWarehouse) :
          /\ item.stockByBranchWarehouse[i].branchId = 1
          /\ item.stockByBranchWarehouse[i].warehouseId = 1
          /\ item.stockByBranchWarehouse[i].stock = item.current_stock

====
